---- MODULE Spec2Model ----
(***************************************************************************)
(* Table assignment and availability engine of tu-mesa-ideal, modelled    *)
(* from docs/sql/03_reservation_functions.sql.                            *)
(*                                                                         *)
(* Time is discrete: a calendar date is a day number, a time of day is a  *)
(* tick 0..DayLen-1, and a timestamptz is the absolute tick               *)
(* date * DayLen + time.                                                  *)
(***************************************************************************)
EXTENDS Integers, FiniteSets, Sequences, TLC

VARIABLES
    zones,                         \* public.zones
    tables,                        \* public.tables
    table_combinations,            \* public.table_combinations
    special_closed_days,           \* public.special_closed_days
    special_schedule_days,         \* public.special_schedule_days
    restaurant_schedules,          \* public.restaurant_schedules
    time_slots,                    \* public.time_slots: the times of the reservation grid
    reservations,                  \* public.reservations (committed rows)
    reservation_table_assignments, \* public.reservation_table_assignments (committed rows)
    next_id,                       \* next value of the reservations.id default
    result,                        \* what the last call returned, and what it was asked
    query,                         \* what the last read-only call returned, and what it was asked
    tx,                            \* the in-flight transactions of the concurrent specification
    wizard,                        \* ReservationForm: its useState values and its pending work
    timestep,                      \* TimeStep: its props, its refs and the checks in flight
    admin                          \* AdminAuth: the form, the login request and the admin session

vars == <<zones, tables, table_combinations, special_closed_days,
          special_schedule_days, restaurant_schedules, time_slots, reservations,
          reservation_table_assignments, next_id, result, query, tx,
          wizard, timestep, admin>>

\* the state of the browser
client == <<wizard, timestep, admin>>

config == <<zones, tables, table_combinations, special_closed_days,
            special_schedule_days, restaurant_schedules, time_slots>>

----------------------------------------------------------------------------
(* Bounds of the model *)

MaxReservations == 2
DayLen == 2
MaxCancelled == 1
MaxTimers == 1
MaxChanges == 3

NULL == "NULL"
NoId == 0

\* the dates, times of day and durations a call may be given; the last time
\* of day with the longest duration runs past midnight
Dates == {0, 1}
Times == {0, 1}
Durations == {1, 2}
PartySizes == {2, 5}
ZoneIds == {"ZA", "ZB"}

----------------------------------------------------------------------------
(* Floor plans: the rows of zones, tables and table_combinations *)

NamedZone(id, name, prio, active) ==
    [id |-> id, name |-> name, priority_order |-> prio, is_active |-> active]

\* a zone whose name is not looked at; it differs from every other name
Zone(id, prio, active) == NamedZone(id, id, prio, active)

NamedTable(id, name, zone, cap, active) ==
    [id |-> id, name |-> name, zone_id |-> zone, capacity |-> cap, is_active |-> active]

\* a table whose name is not looked at
Table(id, zone, cap, active) == NamedTable(id, id, zone, cap, active)

Combination(id, members, cap, zone, active) ==
    [id |-> id, table_ids |-> members, total_capacity |-> cap,
     zone_id |-> zone, is_active |-> active]

\* zone B ranks first (priority 0) and has one small table; zone A
\* (priority 1) has two tables and a combination of them
PlanPriority ==
    [zones |-> {Zone("ZA", 1, TRUE), Zone("ZB", 0, TRUE)},
     tables |-> {Table("T1", "ZB", 2, TRUE), Table("T2", "ZA", 2, TRUE),
                 Table("T3", "ZA", 3, TRUE)},
     combos |-> {Combination("K1", {"T2", "T3"}, 5, "ZA", TRUE)}]

\* no single table covers 5, a combination of two capacity-3 tables does
PlanCombination ==
    [zones |-> {Zone("ZA", 0, TRUE), Zone("ZB", 1, TRUE)},
     tables |-> {Table("T1", "ZA", 3, TRUE), Table("T2", "ZA", 3, TRUE),
                 Table("T3", "ZB", 2, TRUE)},
     combos |-> {Combination("K1", {"T1", "T2"}, 6, "ZA", TRUE)}]

\* several fitting tables and combinations of different capacity in one zone
PlanTightest ==
    [zones |-> {Zone("ZA", 0, TRUE), Zone("ZB", 1, TRUE)},
     tables |-> {Table("T1", "ZA", 4, TRUE), Table("T2", "ZA", 2, TRUE),
                 Table("T3", "ZA", 1, TRUE)},
     combos |-> {Combination("K1", {"T1", "T2"}, 6, "ZA", TRUE),
                 Combination("K2", {"T1", "T3"}, 5, "ZA", TRUE)}]

\* an active combination one of whose member tables was deactivated
PlanInactiveMember ==
    [zones |-> {Zone("ZA", 0, TRUE), Zone("ZB", 1, TRUE)},
     tables |-> {Table("T1", "ZA", 3, TRUE), Table("T2", "ZA", 3, FALSE),
                 Table("T3", "ZB", 2, TRUE)},
     combos |-> {Combination("K1", {"T1", "T2"}, 6, "ZA", TRUE)}]

\* a combination of zone A with a member table of zone B
PlanCrossZone ==
    [zones |-> {Zone("ZA", 0, TRUE), Zone("ZB", 1, TRUE)},
     tables |-> {Table("T1", "ZA", 3, TRUE), Table("T2", "ZB", 3, TRUE),
                 Table("T3", "ZB", 2, TRUE)},
     combos |-> {Combination("K1", {"T1", "T2"}, 6, "ZA", TRUE)}]

\* an inactive zone, two tables without zone whose names sort against their
\* ids, an inactive table, an inactive combination
PlanInactiveZone ==
    [zones |-> {Zone("ZA", 0, FALSE), Zone("ZB", 1, TRUE)},
     tables |-> {Table("T1", "ZA", 5, TRUE), Table("T2", "ZB", 2, TRUE),
                 NamedTable("T3", "Mesa 9", NULL, 5, TRUE),
                 NamedTable("T4", "Mesa 1", NULL, 1, TRUE),
                 Table("T5", "ZB", 4, FALSE)},
     combos |-> {Combination("K1", {"T2", "T3"}, 7, "ZB", FALSE)}]

\* two zones of equal priority; in zone A a large single table next to a
\* small combination
PlanTie ==
    [zones |-> {Zone("ZA", 0, TRUE), Zone("ZB", 0, TRUE)},
     tables |-> {Table("T1", "ZA", 5, TRUE), Table("T2", "ZA", 1, TRUE),
                 Table("T3", "ZA", 1, TRUE), Table("T4", "ZB", 2, TRUE)},
     combos |-> {Combination("K1", {"T2", "T3"}, 2, "ZA", TRUE)}]

\* the first-ranked zone A seats five on a combination only, the next zone B
\* has a table for five next to a combination for two
PlanStrategy ==
    [zones |-> {Zone("ZA", 0, TRUE), Zone("ZB", 1, TRUE)},
     tables |-> {Table("T1", "ZA", 2, TRUE), Table("T2", "ZA", 3, TRUE),
                 Table("T3", "ZB", 5, TRUE), Table("T4", "ZB", 1, TRUE),
                 Table("T5", "ZB", 1, TRUE)},
     combos |-> {Combination("K1", {"T1", "T2"}, 5, "ZA", TRUE),
                 Combination("K2", {"T4", "T5"}, 2, "ZB", TRUE)}]

\* two zones that carry the same name
PlanSameName ==
    [zones |-> {NamedZone("ZA", "Sala", 0, TRUE), NamedZone("ZB", "Sala", 1, TRUE)},
     tables |-> {Table("T1", "ZA", 2, TRUE), Table("T2", "ZB", 2, TRUE),
                 Table("T3", "ZB", 5, TRUE)},
     combos |-> {}]

\* one zone with one table
PlanSingle ==
    [zones |-> {Zone("ZA", 0, TRUE)},
     tables |-> {Table("T1", "ZA", 2, TRUE)},
     combos |-> {}]

----------------------------------------------------------------------------
(* {CalendarOpen, CalendarSpecial}: the rows of the closure and schedule tables *)

ClosedDay(d) == [is_range |-> FALSE, date |-> d, range_start |-> d, range_end |-> d]

SpecialSchedule(d, open, close, active) ==
    [date |-> d, opening_time |-> open, closing_time |-> close, is_active |-> active]

Schedule(dow, open, close, active) ==
    [day_of_week |-> dow, opening_time |-> open, closing_time |-> close,
     is_active |-> active]

\* open every day over the whole time grid
WeekOpen == {Schedule(dow, 0, DayLen - 1, TRUE) : dow \in 0..6}

CalendarOpen == [closed |-> {}, special |-> {}, weekly |-> WeekOpen, slots |-> Times]

\* date 1 is a special closed day; date 0 has a special schedule that opens
\* at time 1 only
CalendarSpecial ==
    [closed |-> {ClosedDay(1)},
     special |-> {SpecialSchedule(0, 1, 1, TRUE)},
     weekly |-> WeekOpen, slots |-> Times]

\* date 1 has a special schedule that opens at time 0 only
CalendarShortDay ==
    [closed |-> {}, special |-> {SpecialSchedule(1, 0, 0, TRUE)}, weekly |-> WeekOpen,
     slots |-> Times]

\* date 1 is a special closed day, date 0 follows the weekly schedule
CalendarClosedDay ==
    [closed |-> {ClosedDay(1)}, special |-> {}, weekly |-> WeekOpen, slots |-> Times]

\* the weekly schedule opens at time 0 only on the weekday of date 0 (a wider
\* schedule of that weekday is inactive) and at time 1 only on the weekday of
\* date 1; date 0 has an active special schedule that opens at time 1 only,
\* date 1 an inactive one that opens at time 0 only
CalendarOverride ==
    [closed |-> {},
     special |-> {SpecialSchedule(0, 1, 1, TRUE), SpecialSchedule(1, 0, 0, FALSE)},
     weekly |-> {Schedule(0, 0, 0, TRUE), Schedule(0, 0, 1, FALSE),
                 Schedule(1, 1, 1, TRUE)},
     slots |-> Times]

\* every date from 0 to 1 lies in one closure range; the weekly schedule
\* opens at time 0 only
CalendarClosedRange ==
    [closed |-> {[is_range |-> TRUE, date |-> 0, range_start |-> 0, range_end |-> 1]}, special |-> {},
     weekly |-> {Schedule(dow, 0, 0, TRUE) : dow \in 0..6}, slots |-> Times]

\* open every day, the reservation grid holds time 1 only
CalendarSparseGrid ==
    [closed |-> {}, special |-> {}, weekly |-> WeekOpen, slots |-> {1}]

----------------------------------------------------------------------------
(* Timestamps *)

\* (p_date || ' ' || p_time)::timestamp AT TIME ZONE 'Europe/Madrid'
StartAt(p_date, p_time) == p_date * DayLen + p_time

\* v_start_at + (p_duration_minutes || ' minutes')::interval
EndAt(p_start_at, p_duration_minutes) == p_start_at + p_duration_minutes

\* EXTRACT(DOW FROM p_date); date 0 is a Sunday
DayOfWeek(p_date) == p_date % 7

----------------------------------------------------------------------------
(* Interval overlap checker *)

ActiveStatuses == {"confirmed", "arrived"}

\* is_table_available(p_table_id, p_date, p_start_at, p_end_at, p_exclude_reservation_id)
\* evaluated on the reservation rows rs and the assignment rows rta
is_table_available(rs, rta, p_table_id, p_date, p_start_at, p_end_at, p_exclude) ==
    ~ \E r \in rs :
        /\ [reservation_id |-> r.id, table_id |-> p_table_id] \in rta
        /\ r.date = p_date
        /\ r.status \in ActiveStatuses
        /\ r.start_at < p_end_at
        /\ r.end_at > p_start_at
        /\ (p_exclude = NoId \/ r.id # p_exclude)

----------------------------------------------------------------------------
(* Zone-ranked table allocator: assign_tables_to_reservation *)

\* the rows of the FOR v_zone query
ZoneRows(p_preferred_zone_id) ==
    {z \in zones : /\ z.is_active
                   /\ (p_preferred_zone_id = NULL \/ z.id = p_preferred_zone_id)}

\* the zones are visited by descending priority_order
ZoneBefore_Descending(a, b, p_preferred_zone_id) ==
    LET ka == IF a.id = p_preferred_zone_id THEN 0 ELSE 1
        kb == IF b.id = p_preferred_zone_id THEN 0 ELSE 1
    IN  ka < kb \/ (ka = kb /\ a.priority_order >= b.priority_order)

\* ORDER BY CASE WHEN z.id = p_preferred_zone_id THEN 0 ELSE 1 END, z.priority_order ASC
ZoneBefore(a, b, p_preferred_zone_id) ==
    LET ka == IF a.id = p_preferred_zone_id THEN 0 ELSE 1
        kb == IF b.id = p_preferred_zone_id THEN 0 ELSE 1
    IN  ka < kb \/ (ka = kb /\ a.priority_order <= b.priority_order)

\* every order in which the FOR loop may visit the zones (rows with equal
\* sort keys come in any order)
ZoneOrders(p_preferred_zone_id) ==
    LET rows == ZoneRows(p_preferred_zone_id)
        n == Cardinality(rows)
    IN  {s \in [1..n -> rows] :
            /\ \A i, j \in 1..n : i # j => s[i] # s[j]
            /\ \A i \in 1..n : \A j \in 1..n :
                   i < j => ZoneBefore(s[i], s[j], p_preferred_zone_id)}

\* the single-table query without its zone condition
SingleCandidates_AnyZone(rs, rta, zone_id, p_date, p_start_at, p_end_at, p_guests) ==
    {t \in tables : /\ t.is_active
                    /\ t.capacity >= p_guests
                    /\ is_table_available(rs, rta, t.id, p_date, p_start_at, p_end_at, NoId)}

\* strategy 1: the rows of the single-table query before ORDER BY / LIMIT
SingleCandidates(rs, rta, zone_id, p_date, p_start_at, p_end_at, p_guests) ==
    {t \in tables : /\ t.is_active
                    /\ t.zone_id = zone_id
                    /\ t.capacity >= p_guests
                    /\ is_table_available(rs, rta, t.id, p_date, p_start_at, p_end_at, NoId)}

\* LIMIT 1 without the ORDER BY: any row may come first
TightestTables_Any(cands) == cands

\* ORDER BY t.capacity ASC LIMIT 1: the rows that may come first
TightestTables(cands) ==
    {t \in cands : \A u \in cands : t.capacity <= u.capacity}

\* the combination query accepting a combination with one free member table
CombinationCandidates_AnyFree(rs, rta, zone_id, p_date, p_start_at, p_end_at, p_guests) ==
    {tc \in table_combinations :
        /\ tc.is_active
        /\ tc.zone_id = zone_id
        /\ tc.total_capacity >= p_guests
        /\ \E combo_table_id \in tc.table_ids :
               is_table_available(rs, rta, combo_table_id, p_date, p_start_at, p_end_at, NoId)}

\* strategy 2: the rows of the combination query before ORDER BY / LIMIT
CombinationCandidates(rs, rta, zone_id, p_date, p_start_at, p_end_at, p_guests) ==
    {tc \in table_combinations :
        /\ tc.is_active
        /\ tc.zone_id = zone_id
        /\ tc.total_capacity >= p_guests
        /\ ~ \E combo_table_id \in tc.table_ids :
               ~ is_table_available(rs, rta, combo_table_id, p_date, p_start_at, p_end_at, NoId)}

\* ORDER BY tc.total_capacity ASC LIMIT 1: the rows that may come first
TightestCombinations(cands) ==
    {tc \in cands : \A u \in cands : tc.total_capacity <= u.total_capacity}

Allocation(kind, zone_id, combination_id, table_ids) ==
    [kind |-> kind, zone_id |-> zone_id, combination_id |-> combination_id,
     table_ids |-> table_ids]

NoAllocation == Allocation("none", NULL, NULL, {})

\* the body of the zone loop from position i of the zone order zs on: the set
\* of allocations the loop may return
RECURSIVE SearchZones(_, _, _, _, _, _, _, _)
SearchZones(zs, i, rs, rta, p_date, p_start_at, p_end_at, p_guests) ==
    IF i > Len(zs) THEN {NoAllocation}
    ELSE
      LET v_zone == zs[i]
          singles == TightestTables(
              SingleCandidates(rs, rta, v_zone.id, p_date, p_start_at, p_end_at, p_guests))
          combos == TightestCombinations(
              CombinationCandidates(rs, rta, v_zone.id, p_date, p_start_at, p_end_at, p_guests))
      IN  IF singles # {}
            THEN {Allocation("single", v_zone.id, NULL, {t.id}) : t \in singles}
          ELSE IF combos # {}
            THEN {Allocation("combination", v_zone.id, tc.id, tc.table_ids) : tc \in combos}
          ELSE SearchZones(zs, i + 1, rs, rta, p_date, p_start_at, p_end_at, p_guests)

\* the zone loop trying the combination query before the single-table query
Allocations_CombinationFirst(rs, rta, p_date, p_start_at, p_end_at, p_guests, p_preferred_zone_id) ==
    UNION {LET singles(i) == TightestTables(
                   SingleCandidates(rs, rta, zs[i].id, p_date, p_start_at, p_end_at, p_guests))
               combos(i) == TightestCombinations(
                   CombinationCandidates(rs, rta, zs[i].id, p_date, p_start_at, p_end_at, p_guests))
               hits == {i \in 1..Len(zs) : singles(i) # {} \/ combos(i) # {}}
           IN  IF hits = {} THEN {NoAllocation}
               ELSE LET i == CHOOSE h \in hits : \A g \in hits : h <= g
                    IN  IF combos(i) # {}
                          THEN {Allocation("combination", zs[i].id, tc.id, tc.table_ids) :
                                   tc \in combos(i)}
                        ELSE {Allocation("single", zs[i].id, NULL, {t.id}) : t \in singles(i)} :
              zs \in ZoneOrders(p_preferred_zone_id)}

\* every allocation assign_tables_to_reservation may choose on (rs, rta)
Allocations(rs, rta, p_date, p_start_at, p_end_at, p_guests, p_preferred_zone_id) ==
    UNION {SearchZones(zs, 1, rs, rta, p_date, p_start_at, p_end_at, p_guests) :
              zs \in ZoneOrders(p_preferred_zone_id)}

\* only one of the table ids gets its row
InsertAssignments_One(rta, p_reservation_id, table_ids) ==
    rta \cup {[reservation_id |-> p_reservation_id, table_id |-> t] :
                 t \in {CHOOSE x \in table_ids : TRUE}}

\* INSERT INTO reservation_table_assignments, one row per table id
InsertAssignments(rta, p_reservation_id, table_ids) ==
    rta \cup {[reservation_id |-> p_reservation_id, table_id |-> t] : t \in table_ids}

\* DELETE FROM reservation_table_assignments without its WHERE
DeleteAssignments_All(rta, p_reservation_id) == {}

\* EXCEPTION WHEN OTHERS: DELETE FROM reservation_table_assignments WHERE reservation_id = ...
DeleteAssignments(rta, p_reservation_id) ==
    {a \in rta : a.reservation_id # p_reservation_id}

----------------------------------------------------------------------------
(* Reservation transaction manager: create_reservation_with_assignment *)

ClosedDayError == "Restaurant is closed on selected date"
ClosedTimeError == "Restaurant is closed at selected time"
DinersLimitError == "Diners limit exceeded"
NoTablesError == "No hay mesas disponibles para esta capacidad en el horario solicitado"
UnexpectedError == "Error al crear la reserva"
NoError == ""

\* SELECT COUNT(*) > 0 INTO v_special_closed FROM special_closed_days ...
\* the closure ranges are not looked at
SpecialClosed_SingleOnly(p_date) ==
    \E scd \in special_closed_days : ~ scd.is_range /\ scd.date = p_date

\* SELECT COUNT(*) > 0 INTO v_special_closed FROM special_closed_days ...
SpecialClosed(p_date) ==
    \E scd \in special_closed_days :
        \/ (~ scd.is_range /\ scd.date = p_date)
        \/ (scd.is_range /\ scd.range_start <= p_date /\ p_date <= scd.range_end)

\* the rows SELECT ... FROM special_schedule_days ... LIMIT 1 may return
SpecialScheduleRows(p_date) ==
    {s \in special_schedule_days : s.date = p_date /\ s.is_active}

\* the closing time itself is outside the window
ScheduleExists_Exclusive(p_date, p_time) ==
    \E rs \in restaurant_schedules :
        /\ rs.day_of_week = DayOfWeek(p_date)
        /\ rs.is_active
        /\ p_time >= rs.opening_time
        /\ p_time < rs.closing_time

\* SELECT COUNT(*) > 0 INTO v_schedule_exists FROM restaurant_schedules ...
ScheduleExists(p_date, p_time) ==
    \E rs \in restaurant_schedules :
        /\ rs.day_of_week = DayOfWeek(p_date)
        /\ rs.is_active
        /\ p_time >= rs.opening_time
        /\ p_time <= rs.closing_time

\* the opening-window step without the special schedule branch
OutOfHours_WeeklyOnly(p_date, p_time, specials) ==
    ~ ScheduleExists(p_date, p_time)

\* the opening-window step, given the special schedule row that was fetched
OutOfHours(p_date, p_time, specials) ==
    IF specials # {}
      THEN \E v_special_schedule \in specials :
              \/ p_time < v_special_schedule.opening_time
              \/ p_time > v_special_schedule.closing_time
      ELSE ~ ScheduleExists(p_date, p_time)

\* the checks with the opening window tested before the closed day
PolicyError_TimeFirst(p_date, p_time, specials, diners_ok) ==
    IF OutOfHours(p_date, p_time, specials) THEN ClosedTimeError
    ELSE IF SpecialClosed(p_date) THEN ClosedDayError
    ELSE IF ~ diners_ok THEN DinersLimitError
    ELSE NoError

\* the checks before the row is inserted, in the order of the code; diners_ok
\* is what check_diners_limit answered
PolicyError(p_date, p_time, specials, diners_ok) ==
    IF SpecialClosed(p_date) THEN ClosedDayError
    ELSE IF OutOfHours(p_date, p_time, specials) THEN ClosedTimeError
    ELSE IF ~ diners_ok THEN DinersLimitError
    ELSE NoError

\* the row is inserted with an end one time unit after its start
ReservationRow_FixedEnd(id, p_customer_id, p_date, p_time, p_guests, p_duration_minutes) ==
    [id |-> id, customer_id |-> p_customer_id, date |-> p_date, time |-> p_time,
     guests |-> p_guests, status |-> "confirmed",
     start_at |-> StartAt(p_date, p_time),
     end_at |-> StartAt(p_date, p_time) + 1,
     duration_minutes |-> p_duration_minutes]

\* the row of INSERT INTO public.reservations ... RETURNING id
ReservationRow(id, p_customer_id, p_date, p_time, p_guests, p_duration_minutes) ==
    [id |-> id, customer_id |-> p_customer_id, date |-> p_date, time |-> p_time,
     guests |-> p_guests, status |-> "confirmed",
     start_at |-> StartAt(p_date, p_time),
     end_at |-> EndAt(StartAt(p_date, p_time), p_duration_minutes),
     duration_minutes |-> p_duration_minutes]

\* the DELETE is left out
DeleteReservation_Kept(rs, v_reservation_id) == rs

\* DELETE FROM public.reservations WHERE id = v_reservation_id
DeleteReservation(rs, v_reservation_id) ==
    {r \in rs : r.id # v_reservation_id}

\* what the last call returned (success, error, reservation_id,
\* assigned_tables), the id of the row the call inserted (attempt_id) and,
\* when the allocator returned, its choice and the request it was given
NoResult ==
    [op |-> "none", success |-> FALSE, error |-> NoError, reservation_id |-> NoId,
     assigned_tables |-> {}, attempt_id |-> NoId, kind |-> "none", zone_id |-> NULL,
     combination_id |-> NULL, date |-> 0, time |-> 0, guests |-> 0,
     duration_minutes |-> 0, preferred_zone_id |-> NULL, diners_ok |-> TRUE,
     phone |-> ""]

\* the result of a call whose allocator returned alloc for the inserted row:
\* json_build_object('success', true, ..., 'reservation_id', ..., 'assigned_tables', ...)
\* or json_build_object('success', false, 'error', 'No hay mesas disponibles ...')
Allocated(row, alloc, p_pref) ==
    [op |-> "create", success |-> alloc.kind # "none",
     error |-> IF alloc.kind # "none" THEN NoError ELSE NoTablesError,
     reservation_id |-> IF alloc.kind # "none" THEN row.id ELSE NoId,
     assigned_tables |-> alloc.table_ids, attempt_id |-> row.id, kind |-> alloc.kind,
     zone_id |-> alloc.zone_id, combination_id |-> alloc.combination_id,
     date |-> row.date, time |-> row.time, guests |-> row.guests,
     duration_minutes |-> row.duration_minutes, preferred_zone_id |-> p_pref,
     diners_ok |-> TRUE]

\* json_build_object('success', false, 'error', ...), with the date and time
\* the call was given and what check_diners_limit answered
Rejected(err, attempt, p_date, p_time, diners_ok) ==
    [NoResult EXCEPT !.op = "create", !.error = err, !.attempt_id = attempt,
                     !.date = p_date, !.time = p_time, !.diners_ok = diners_ok]

\* a policy rejection: RETURN before any row is written
RejectReservation(p_date, p_time, diners_ok) ==
    LET err == PolicyError(p_date, p_time, SpecialScheduleRows(p_date), diners_ok)
    IN  /\ err # NoError
        /\ result' = Rejected(err, NoId, p_date, p_time, diners_ok)
        /\ UNCHANGED <<reservations, reservation_table_assignments, next_id>>

\* the INSERT of the reservation row raises: v_reservation_id IS NULL in the handler
FailInsertReservation(p_date, p_time) ==
    /\ PolicyError(p_date, p_time, SpecialScheduleRows(p_date), TRUE) = NoError
    /\ result' = Rejected(UnexpectedError, NoId, p_date, p_time, TRUE)
    /\ UNCHANGED <<reservations, reservation_table_assignments, next_id>>

\* the checks pass, the row is inserted and the allocator runs
AllocateReservation(p_customer_id, p_date, p_time, p_guests, p_duration_minutes, p_pref) ==
    LET v_reservation_id == next_id
        row == ReservationRow(v_reservation_id, p_customer_id, p_date, p_time,
                              p_guests, p_duration_minutes)
        inserted == reservations \cup {row}
    IN
    /\ PolicyError(p_date, p_time, SpecialScheduleRows(p_date), TRUE) = NoError
    /\ next_id <= MaxReservations
    /\ \E alloc \in Allocations(inserted, reservation_table_assignments, p_date,
                                row.start_at, row.end_at, p_guests, p_pref) :
         \/ \* RETURN ARRAY[]::uuid[]: the row is deleted again
            /\ alloc.kind = "none"
            /\ reservations' = DeleteReservation(inserted, v_reservation_id)
            /\ UNCHANGED <<reservation_table_assignments, next_id>>
            /\ result' = Allocated(row, alloc, p_pref)
         \/ \* every assignment row is inserted
            /\ alloc.kind # "none"
            /\ reservations' = inserted
            /\ reservation_table_assignments' =
                   InsertAssignments(reservation_table_assignments,
                                     v_reservation_id, alloc.table_ids)
            /\ next_id' = next_id + 1
            /\ result' = Allocated(row, alloc, p_pref)
         \/ \* an INSERT of an assignment row raises: both blocks are rolled back
            \* to their entry state, then each handler runs its DELETE
            /\ alloc.kind # "none"
            /\ reservation_table_assignments' =
                   DeleteAssignments(reservation_table_assignments, v_reservation_id)
            /\ reservations' = DeleteReservation(reservations, v_reservation_id)
            /\ UNCHANGED next_id
            /\ result' = Rejected(UnexpectedError, v_reservation_id, p_date, p_time, TRUE)

\* one call of create_reservation_with_assignment as one atomic transaction
CreateReservation ==
    /\ \/ \E p_date \in Dates, p_time \in Times, diners_ok \in BOOLEAN :
             RejectReservation(p_date, p_time, diners_ok)
       \/ \E p_date \in Dates, p_time \in Times :
             FailInsertReservation(p_date, p_time)
       \/ \E p_customer_id \in {"c1"}, p_date \in Dates, p_time \in Times,
             p_guests \in PartySizes, p_duration_minutes \in Durations,
             p_pref \in ZoneIds \cup {NULL} :
             AllocateReservation(p_customer_id, p_date, p_time, p_guests,
                                 p_duration_minutes, p_pref)
    /\ UNCHANGED <<client, config, query, tx>>

----------------------------------------------------------------------------
(* public_cancel_reservation *)

NoTime == -1

CancelNotFoundError == "No se encontro una reserva activa para este telefono y fecha"

\* public.customers: c.phone of the customer row with c.id = customer_id; the
\* customers c1 and c2 registered the same phone
PhoneOf(customer_id) == IF customer_id \in {"c1", "c2"} THEN "600" ELSE "700"

\* the rows of the SELECT that looks the reservation up, before ORDER BY / LIMIT
CancelCandidates(p_phone, p_date, p_time) ==
    {r \in reservations : /\ PhoneOf(r.customer_id) = p_phone
                          /\ r.date = p_date
                          /\ (p_time = NoTime \/ r.time = p_time)
                          /\ r.status \in ActiveStatuses}

\* LIMIT 1 without the ORDER BY: any row may come first
EarliestCandidates_Any(cands) == cands

\* ORDER BY r.time LIMIT 1
EarliestCandidates(cands) == {r \in cands : \A u \in cands : r.time <= u.time}

\* the json the call returns, with the phone, date and time it was given
CancelResult(ok, err, id, p_phone, p_date, p_time) ==
    [NoResult EXCEPT !.op = "cancel", !.success = ok, !.error = err,
                     !.reservation_id = id, !.phone = p_phone,
                     !.date = p_date, !.time = p_time]

\* DELETE FROM public.reservations WHERE id = v_reservation_id
SetCancelled_Deleted(rs, v_reservation_id) ==
    {r \in rs : r.id # v_reservation_id}

\* UPDATE public.reservations SET status = 'cancelled', updated_at = NOW()
\* WHERE id = v_reservation_id; updated_at is a column no function reads
SetCancelled(rs, v_reservation_id) ==
    {IF r.id = v_reservation_id THEN [r EXCEPT !.status = "cancelled"] ELSE r : r \in rs}

public_cancel_reservation(p_phone, p_date, p_time) ==
    LET cands == EarliestCandidates(CancelCandidates(p_phone, p_date, p_time))
    IN  \/ /\ cands = {}
           /\ result' = CancelResult(FALSE, CancelNotFoundError, NoId, p_phone, p_date, p_time)
           /\ UNCHANGED reservations
        \/ \E r \in cands :
           /\ reservations' = SetCancelled(reservations, r.id)
           /\ result' = CancelResult(TRUE, NoError, r.id, p_phone, p_date, p_time)

CancelReservation ==
    \E p_phone \in {"600"}, p_date \in Dates, p_time \in Times \cup {NoTime} :
        /\ \/ Cardinality({r \in reservations : r.status = "cancelled"}) < MaxCancelled
           \/ CancelCandidates(p_phone, p_date, p_time) = {}
        /\ public_cancel_reservation(p_phone, p_date, p_time)
        /\ UNCHANGED <<client, config, query, reservation_table_assignments, next_id, tx>>

----------------------------------------------------------------------------
(* Availability slot calculator: get_available_time_slots_with_zones *)

\* LEFT JOIN public.zones z ON ... = z.id: the zone rows joined to zone_id
ZoneJoin(zone_id) == {z \in zones : z.id = zone_id}

\* z.id of the joined row, NULL without one
JoinedZoneId(zone_id) == IF ZoneJoin(zone_id) = {} THEN NULL ELSE zone_id

\* COALESCE(z.name, 'Sin zona')
JoinedZoneName(zone_id) ==
    IF ZoneJoin(zone_id) = {} THEN "Sin zona"
    ELSE (CHOOSE z \in ZoneJoin(zone_id) : TRUE).name

\* COALESCE(z.priority_order, 999)
JoinedZonePriority(zone_id) ==
    IF ZoneJoin(zone_id) = {} THEN 999
    ELSE (CHOOSE z \in ZoneJoin(zone_id) : TRUE).priority_order

\* slot_times: the grid times inside an active weekly schedule of the weekday
SlotTimes(p_date) ==
    {ts \in time_slots :
        \E rs \in restaurant_schedules :
            /\ rs.day_of_week = DayOfWeek(p_date)
            /\ rs.is_active
            /\ ts >= rs.opening_time
            /\ ts <= rs.closing_time}

\* occupied_tables, for one slot of slot_ranges
SlotOccupiedTables(p_date, slot_time, p_duration_minutes) ==
    LET start_at == StartAt(p_date, slot_time)
        end_at == EndAt(start_at, p_duration_minutes)
    IN  {rta.table_id : rta \in
            {a \in reservation_table_assignments :
                \E r \in reservations :
                    /\ r.id = a.reservation_id
                    /\ r.date = p_date
                    /\ r.status \in ActiveStatuses
                    /\ r.start_at < end_at
                    /\ r.end_at > start_at}}

SlotOption(slot_time, capacity, zone_id) ==
    [slot_time |-> slot_time, capacity |-> capacity,
     zone_name |-> JoinedZoneName(zone_id),
     zone_priority |-> JoinedZonePriority(zone_id),
     zone_id |-> JoinedZoneId(zone_id)]

\* available_tables, for one slot
AvailableTables(p_date, slot_time, p_duration_minutes) ==
    {SlotOption(slot_time, t.capacity, t.zone_id) : t \in
        {u \in tables :
            /\ u.is_active
            /\ u.id \notin SlotOccupiedTables(p_date, slot_time, p_duration_minutes)}}

\* available_combinations, for one slot
AvailableCombinations(p_date, slot_time, p_duration_minutes) ==
    {SlotOption(slot_time, tc.total_capacity, tc.zone_id) : tc \in
        {u \in table_combinations :
            /\ u.is_active
            /\ ~ \E combo_table_id \in u.table_ids :
                   combo_table_id \in
                       SlotOccupiedTables(p_date, slot_time, p_duration_minutes)}}

\* all_options: the rows of both, over every slot
AllOptions(p_date, p_duration_minutes) ==
    UNION {AvailableTables(p_date, st, p_duration_minutes)
             \cup AvailableCombinations(p_date, st, p_duration_minutes) :
           st \in SlotTimes(p_date)}

\* the row of the result for an option
SlotRow(ao) ==
    [slot_time |-> ao.slot_time, zone_name |-> ao.zone_name,
     zone_priority |-> ao.zone_priority, zone_id |-> ao.zone_id]

\* the options that ORDER BY ao.slot_time, ao.zone_name, ao.zone_priority ASC,
\* ao.capacity ASC may put first among those of one slot_time and zone_name
FirstOptions(fitting, slot_time, zone_name) ==
    {a \in fitting :
        /\ a.slot_time = slot_time
        /\ a.zone_name = zone_name
        /\ \A b \in fitting :
              (b.slot_time = slot_time /\ b.zone_name = zone_name)
                 => \/ a.zone_priority < b.zone_priority
                    \/ /\ a.zone_priority = b.zone_priority
                       /\ a.capacity <= b.capacity}

\* available_zones_per_slot: DISTINCT ON (slot_time, zone_name) keeps, of the
\* options with capacity >= p_guests, one first row for every slot_time and
\* zone_name; the result is every set of rows it may keep
AvailableZonesPerSlot(p_date, p_guests, p_duration_minutes) ==
    LET fitting == {ao \in AllOptions(p_date, p_duration_minutes) :
                       ao.capacity >= p_guests}
        groups == {<<ao.slot_time, ao.zone_name>> : ao \in fitting}
        firsts == {SlotRow(ao) : ao \in fitting}
    IN  {kept \in SUBSET firsts :
            \A g \in groups :
                \E row \in {SlotRow(a) : a \in FirstOptions(fitting, g[1], g[2])} :
                    {k \in kept : k.slot_time = g[1] /\ k.zone_name = g[2]} = {row}}

\* the rows are ordered by descending zone_priority within a slot
SlotRowBefore_Descending(a, b) ==
    \/ a.slot_time < b.slot_time
    \/ (a.slot_time = b.slot_time /\ a.zone_priority >= b.zone_priority)

\* ORDER BY azps.slot_time, azps.zone_priority ASC
SlotRowBefore(a, b) ==
    \/ a.slot_time < b.slot_time
    \/ (a.slot_time = b.slot_time /\ a.zone_priority <= b.zone_priority)

\* every order in which the final SELECT may return the rows
RECURSIVE SlotRowOrders(_)
SlotRowOrders(rows) ==
    IF rows = {} THEN {<<>>}
    ELSE UNION {{<<first>> \o rest : rest \in SlotRowOrders(rows \ {first})} :
                first \in {a \in rows : \A b \in rows : SlotRowBefore(a, b)}}

\* every result get_available_time_slots_with_zones may return
AvailableTimeSlots(p_date, p_guests, p_duration_minutes) ==
    UNION {SlotRowOrders(rows) :
             rows \in AvailableZonesPerSlot(p_date, p_guests, p_duration_minutes)}

\* what a read-only call returned: the rows, the arguments it was given, and
\* as_of, the id the next reservation had when the snapshot was read
NoQuery ==
    [op |-> "none", date |-> 0, time |-> NoTime, guests |-> 0, duration_minutes |-> 0,
     exclude |-> NoId, rows |-> <<>>, as_of |-> NoId]

\* one call of get_available_time_slots_with_zones
GetAvailableTimeSlots ==
    \E p_date \in Dates, p_guests \in PartySizes, p_duration_minutes \in Durations :
        \E rows \in AvailableTimeSlots(p_date, p_guests, p_duration_minutes) :
            /\ query' = [NoQuery EXCEPT !.op = "slots", !.date = p_date,
                                        !.guests = p_guests,
                                        !.duration_minutes = p_duration_minutes,
                                        !.rows = rows, !.as_of = next_id]
            /\ UNCHANGED <<client, config, reservations, reservation_table_assignments,
                           next_id, result, tx>>

----------------------------------------------------------------------------
(* Admin table-status reporter: get_available_tables_for_reservation *)

\* occupied_tables with closed intervals: touching endpoints conflict
ReportOccupiedTables_Closed(p_date, v_start_at, v_end_at, p_exclude_reservation_id) ==
    {rta.table_id : rta \in
        {a \in reservation_table_assignments :
            \E r \in reservations :
                /\ r.id = a.reservation_id
                /\ r.date = p_date
                /\ r.status \in ActiveStatuses
                /\ r.start_at <= v_end_at
                /\ r.end_at >= v_start_at
                /\ (p_exclude_reservation_id = NoId \/ r.id # p_exclude_reservation_id)}}

\* occupied_tables
ReportOccupiedTables(p_date, v_start_at, v_end_at, p_exclude_reservation_id) ==
    {rta.table_id : rta \in
        {a \in reservation_table_assignments :
            \E r \in reservations :
                /\ r.id = a.reservation_id
                /\ r.date = p_date
                /\ r.status \in ActiveStatuses
                /\ r.start_at < v_end_at
                /\ r.end_at > v_start_at
                /\ (p_exclude_reservation_id = NoId \/ r.id # p_exclude_reservation_id)}}

\* the rows before ORDER BY: one per active table
TableStatusRows(p_date, p_time, p_duration_minutes, p_exclude_reservation_id) ==
    LET v_start_at == StartAt(p_date, p_time)
        v_end_at == EndAt(v_start_at, p_duration_minutes)
        occupied == ReportOccupiedTables(p_date, v_start_at, v_end_at,
                                         p_exclude_reservation_id)
    IN  {[table_id |-> t.id, table_name |-> t.name, capacity |-> t.capacity,
          zone_id |-> JoinedZoneId(t.zone_id), zone_name |-> JoinedZoneName(t.zone_id),
          is_available |-> t.id \notin occupied] : t \in {u \in tables : u.is_active}}

\* the table names in the order of the text collation
TableNames == <<"Mesa 1", "Mesa 9", "T1", "T2", "T3", "T4", "T5">>

NameRank(name) == CHOOSE k \in 1..Len(TableNames) : TableNames[k] = name

\* the rows without a zone come first
TableStatusBefore_NullsFirst(a, b) ==
    LET za == ZoneJoin(a.zone_id)
        zb == ZoneJoin(b.zone_id)
        pa == JoinedZonePriority(a.zone_id)
        pb == JoinedZonePriority(b.zone_id)
    IN  IF za = {} /\ zb = {} THEN NameRank(a.table_name) <= NameRank(b.table_name)
        ELSE IF za = {} THEN TRUE
        ELSE IF zb = {} THEN FALSE
        ELSE \/ pa < pb
             \/ (pa = pb /\ NameRank(a.table_name) <= NameRank(b.table_name))

\* ORDER BY z.priority_order ASC NULLS LAST, t.name ASC
TableStatusBefore(a, b) ==
    LET za == ZoneJoin(a.zone_id)
        zb == ZoneJoin(b.zone_id)
        pa == JoinedZonePriority(a.zone_id)
        pb == JoinedZonePriority(b.zone_id)
    IN  IF za = {} /\ zb = {} THEN NameRank(a.table_name) <= NameRank(b.table_name)
        ELSE IF za = {} THEN FALSE
        ELSE IF zb = {} THEN TRUE
        ELSE \/ pa < pb
             \/ (pa = pb /\ NameRank(a.table_name) <= NameRank(b.table_name))

\* every order in which the SELECT may return the rows
RECURSIVE TableStatusOrders(_)
TableStatusOrders(rows) ==
    IF rows = {} THEN {<<>>}
    ELSE UNION {{<<first>> \o rest : rest \in TableStatusOrders(rows \ {first})} :
                first \in {a \in rows : \A b \in rows : TableStatusBefore(a, b)}}

\* a reporter that removes the assignment rows of the excluded reservation
GetAvailableTables_Releasing ==
    \E p_date \in Dates, p_time \in Times, p_duration_minutes \in {1},
       p_exclude_reservation_id \in {NoId} \cup {r.id : r \in reservations} :
        \E rows \in TableStatusOrders(
                        TableStatusRows(p_date, p_time, p_duration_minutes,
                                        p_exclude_reservation_id)) :
            /\ query' = [NoQuery EXCEPT !.op = "tables", !.date = p_date,
                                        !.time = p_time,
                                        !.duration_minutes = p_duration_minutes,
                                        !.exclude = p_exclude_reservation_id,
                                        !.rows = rows, !.as_of = next_id]
            /\ reservation_table_assignments' =
                   DeleteAssignments(reservation_table_assignments,
                                     p_exclude_reservation_id)
            /\ UNCHANGED <<client, config, reservations, next_id, result, tx>>

\* one call of get_available_tables_for_reservation
GetAvailableTables ==
    \E p_date \in Dates, p_time \in Times, p_duration_minutes \in {1},
       p_exclude_reservation_id \in {NoId} \cup {r.id : r \in reservations} :
        \E rows \in TableStatusOrders(
                        TableStatusRows(p_date, p_time, p_duration_minutes,
                                        p_exclude_reservation_id)) :
            /\ query' = [NoQuery EXCEPT !.op = "tables", !.date = p_date,
                                        !.time = p_time,
                                        !.duration_minutes = p_duration_minutes,
                                        !.exclude = p_exclude_reservation_id,
                                        !.rows = rows, !.as_of = next_id]
            /\ UNCHANGED <<client, config, reservations, reservation_table_assignments,
                           next_id, result, tx>>

----------------------------------------------------------------------------
(* Booking wizard: ReservationForm *)

\* the state of the database
server == <<config, reservations, reservation_table_assignments, next_id, result, query, tx>>

\* useState<Date | null>(null)
NoDate == -1

\* the ids create_reservation_with_assignment may return to the wizard
ReservationIds == {1, 2}

\* <Button onClick={handleStartReservation}>, rendered in step initial
handleStartReservation ==
    /\ wizard.currentStep = "initial"
    /\ wizard' = [wizard EXCEPT !.currentStep = "date"]
    /\ UNCHANGED <<server, timestep, admin>>

\* DateStep onNext
handleDateSelect ==
    /\ wizard.currentStep = "date"
    /\ \E date \in Dates :
          wizard' = [wizard EXCEPT !.selectedDate = date, !.currentStep = "guests"]
    /\ UNCHANGED <<server, timestep, admin>>

\* GuestsStep onNext: setSelectedGuests, then setTimeout(() => setCurrentStep("time"), 0)
handleGuestsSelect ==
    /\ wizard.currentStep = "guests"
    /\ wizard.timers < MaxTimers
    /\ \E guests \in PartySizes :
          wizard' = [wizard EXCEPT !.selectedGuests = guests, !.timers = @ + 1]
    /\ UNCHANGED <<server, timestep, admin>>

\* the callback of setTimeout runs; nothing cancels it
TimerFires ==
    /\ wizard.timers > 0
    /\ wizard' = [wizard EXCEPT !.currentStep = "time", !.timers = @ - 1]
    /\ UNCHANGED <<server, timestep, admin>>

\* TimeStep onNext.  The slot buttons exist once the availability request of
\* the mounted TimeStep was answered, and a response arrives after the
\* callbacks of delay 0 scheduled before the request have run
handleTimeSelect ==
    /\ wizard.currentStep = "time"
    /\ wizard.timers = 0
    /\ \E time \in Times, zoneId \in ZoneIds \cup {NULL} :
          wizard' = [wizard EXCEPT !.selectedTime = time, !.selectedZoneId = zoneId,
                                   !.currentStep = "info"]
    /\ UNCHANGED <<server, timestep, admin>>

\* onBack of DateStep and of ConfirmationStep; ConfirmationStep is rendered
\* only with a confirmedReservation
handleBackToInitial ==
    /\ \/ wizard.currentStep = "date"
       \/ wizard.currentStep = "confirmation" /\ wizard.confirmedReservation # NoId
    /\ wizard' = [wizard EXCEPT !.currentStep = "initial", !.selectedDate = NoDate,
                                !.selectedGuests = 0, !.selectedTime = NoTime,
                                !.selectedZoneId = NULL, !.confirmedReservation = NoId]
    /\ UNCHANGED <<server, timestep, admin>>

\* onBack of GuestsStep, TimeStep and InfoStep
handleBack ==
    /\ wizard.currentStep \in {"guests", "time", "info"}
    /\ wizard' = [wizard EXCEPT !.currentStep =
                     CASE wizard.currentStep = "guests" -> "date"
                       [] wizard.currentStep = "time" -> "guests"
                       [] wizard.currentStep = "info" -> "time"]
    /\ UNCHANGED <<server, timestep, admin>>

\* onStepClick of the header of GuestsStep, TimeStep and InfoStep
handleStepClick ==
    /\ wizard.currentStep \in {"guests", "time", "info"}
    /\ \E step \in {"date", "guests", "time"} :
          wizard' = [wizard EXCEPT !.currentStep =
                        IF step = "date" THEN "date"
                        ELSE IF step = "guests" /\ wizard.selectedDate # NoDate THEN "guests"
                        ELSE IF /\ step = "time"
                                /\ wizard.selectedDate # NoDate
                                /\ wizard.selectedGuests > 0 THEN "time"
                        ELSE @]
    /\ UNCHANGED <<server, timestep, admin>>

\* the catch block leaves the step as it is
CatchSubmit_NoStep(w) == [w EXCEPT !.submit = "none"]

\* the catch block of handleInfoSubmit: toast, setCurrentStep("info")
CatchSubmit(w) == [w EXCEPT !.currentStep = "info", !.submit = "none"]

\* the confirmation is stored before the reservation is requested
StartSubmit_Confirmed(w) ==
    [w EXCEPT !.currentStep = "confirmation", !.submit = "customer",
              !.received = NoId, !.confirmedReservation = 1,
              !.submitted = <<w.selectedDate, w.selectedGuests, w.selectedTime,
                              w.selectedZoneId>>]

\* setCurrentStep("confirmation"), then the customer request is sent
StartSubmit(w) ==
    [w EXCEPT !.currentStep = "confirmation", !.submit = "customer",
              !.received = NoId,
              !.submitted = <<w.selectedDate, w.selectedGuests, w.selectedTime,
                              w.selectedZoneId>>]

\* InfoStep onNext: handleInfoSubmit up to its first await
handleInfoSubmit ==
    /\ wizard.currentStep = "info"
    /\ wizard.submit = "none"
    /\ IF \/ wizard.selectedDate = NoDate
          \/ wizard.selectedTime = NoTime
          \/ wizard.selectedGuests = 0
         THEN UNCHANGED wizard
         ELSE wizard' = StartSubmit(wizard)
    /\ UNCHANGED <<server, timestep, admin>>

\* create_customer_optional_email answers: an id, an error, or no id
CustomerReturns ==
    /\ wizard.submit = "customer"
    /\ wizard.timers = 0
    /\ \E outcome \in {"id", "error", "no id"} :
          wizard' = IF outcome = "id"
                      THEN [wizard EXCEPT !.submit = "reservation"]
                      ELSE CatchSubmit(wizard)
    /\ UNCHANGED <<server, timestep, admin>>

\* create_reservation_with_assignment answers: an error, a json with success
\* false, or a json with success true and the reservation_id
ReservationReturns ==
    /\ wizard.submit = "reservation"
    /\ wizard.timers = 0
    /\ \/ \E outcome \in {"error", "success false"} : wizard' = CatchSubmit(wizard)
       \/ \E id \in ReservationIds :
             wizard' = [wizard EXCEPT !.received = id, !.submit = "tables"]
    /\ UNCHANGED <<server, timestep, admin>>

\* the query of the assigned tables answers, with rows or with an error:
\* setConfirmedReservation, setCurrentStep("confirmation")
TablesReturn ==
    /\ wizard.submit = "tables"
    /\ wizard.timers = 0
    /\ wizard' = [wizard EXCEPT !.confirmedReservation = wizard.received,
                                !.currentStep = "confirmation", !.submit = "none"]
    /\ UNCHANGED <<server, timestep, admin>>

\* what the user and the browser can do to the wizard
WizardStep ==
    \/ handleStartReservation
    \/ handleDateSelect
    \/ handleGuestsSelect
    \/ TimerFires
    \/ handleTimeSelect
    \/ handleBackToInitial
    \/ handleBack
    \/ handleStepClick
    \/ handleInfoSubmit
    \/ CustomerReturns
    \/ ReservationReturns
    \/ TablesReturn

----------------------------------------------------------------------------
(* Time selection step: TimeStep *)

\* `${dateKey}-${guests}`
CheckKey(date, guests) == <<date, guests>>

\* the parent renders the mounted TimeStep with another date or guest count
PropsChange ==
    /\ timestep.changes < MaxChanges
    /\ \E date \in Dates, guests \in PartySizes :
          /\ CheckKey(date, guests) # CheckKey(timestep.date, timestep.guests)
          /\ timestep' = [timestep EXCEPT !.date = date, !.guests = guests,
                                          !.effect = TRUE, !.changes = @ + 1]
    /\ UNCHANGED <<server, wizard, admin>>

\* the effect without the test of isCheckingRef
RunCheck_Unguarded(t) ==
    IF CheckKey(t.date, t.guests) = t.lastCheckRef THEN [t EXCEPT !.effect = FALSE]
    ELSE [t EXCEPT !.lastCheckRef = CheckKey(t.date, t.guests), !.isCheckingRef = TRUE,
                   !.inflight = @ + 1, !.effect = FALSE]

\* the body of the effect of [dateKey, guests]
RunCheck(t) ==
    IF t.isCheckingRef THEN [t EXCEPT !.effect = FALSE]
    ELSE IF CheckKey(t.date, t.guests) = t.lastCheckRef THEN [t EXCEPT !.effect = FALSE]
    ELSE [t EXCEPT !.lastCheckRef = CheckKey(t.date, t.guests), !.isCheckingRef = TRUE,
                   !.inflight = @ + 1, !.effect = FALSE]

\* React runs the effect after the render that changed dateKey or guests
RunEffect ==
    /\ timestep.effect
    /\ timestep' = RunCheck(timestep)
    /\ UNCHANGED <<server, wizard, admin>>

\* the promise of checkAvailability resolves or rejects: finally clears the flag
CheckSettles ==
    /\ timestep.inflight > 0
    /\ \E outcome \in {"resolved", "rejected"} :
          timestep' = [timestep EXCEPT !.inflight = @ - 1, !.isCheckingRef = FALSE]
    /\ UNCHANGED <<server, wizard, admin>>

----------------------------------------------------------------------------
(* Administrator login: AdminAuth *)

\* onChange of the email input, disabled while isLoading
setEmail ==
    /\ ~ admin.isLoading
    /\ \E email \in {"admin@admin.es", "other@admin.es"} : admin' = [admin EXCEPT !.email = email]
    /\ UNCHANGED <<server, wizard, timestep>>

\* onChange of the password input, disabled while isLoading
setPassword ==
    /\ ~ admin.isLoading
    /\ \E password \in {"password", "secret"} : admin' = [admin EXCEPT !.password = password]
    /\ UNCHANGED <<server, wizard, timestep>>

\* onSubmit of the form: setIsLoading(true), the request is sent
handleSubmit ==
    /\ ~ admin.isLoading
    /\ admin' = [admin EXCEPT !.isLoading = TRUE, !.request = TRUE, !.outcome = "none"]
    /\ UNCHANGED <<server, wizard, timestep>>

\* whether handleSubmit calls loginLocalAdmin after the race settled: with an
\* error for the known administrator, without error when data.user is there
GrantsSession(a, outcome) ==
    IF outcome \in {"rejected", "failed", "timeout"}
      THEN a.email = "admin@admin.es" /\ a.password = "password"
      ELSE outcome = "accepted"

\* Promise.race settles and handleSubmit runs to its end: finally setIsLoading(false)
LoginSettles ==
    /\ admin.request
    /\ \E outcome \in {"accepted", "accepted without user", "rejected", "failed", "timeout"} :
          admin' = [admin EXCEPT !.request = FALSE, !.isLoading = FALSE,
                                 !.outcome = outcome,
                                 !.session = @ \/ GrantsSession(admin, outcome)]
    /\ UNCHANGED <<server, wizard, timestep>>

\* the browser before the user has touched it.
\* wizard: useState of ReservationForm; timers counts the callbacks of
\* setTimeout that have not run, submit is the request handleInfoSubmit waits
\* for, received the reservation_id of the result of the submission in
\* progress, submitted the selection that submission started with.
\* selectedZone, withChildren and customerData are only displayed and are not
\* carried.
\* timestep: a TimeStep that has just been mounted for date 0 and a party of
\* two: the refs hold their initial values, the effect has not run; changes
\* counts the renders with new props, inflight the promises of
\* checkAvailability that have not settled.
\* admin: useState(""), useState(false) of AdminAuth; request is the login
\* request in flight, outcome the answer to the last request, session whether
\* loginLocalAdmin has been called
InitClient ==
    /\ wizard =
          [currentStep |-> "initial", selectedDate |-> NoDate, selectedGuests |-> 0,
           selectedTime |-> NoTime, selectedZoneId |-> NULL,
           confirmedReservation |-> NoId, timers |-> 0, submit |-> "none",
           received |-> NoId, submitted |-> <<NoDate, 0, NoTime, NULL>>]
    /\ timestep =
          [date |-> 0, guests |-> 2, lastCheckRef |-> <<>>, isCheckingRef |-> FALSE,
           effect |-> TRUE, inflight |-> 0, changes |-> 0]
    /\ admin =
          [email |-> "", password |-> "", isLoading |-> FALSE, request |-> FALSE,
           outcome |-> "none", session |-> FALSE]

----------------------------------------------------------------------------
(* The sequential specification: every call is one atomic transaction *)

Procs == {"a", "b"}

\* a transaction that has not started; undone holds the assignment rows that
\* the rollback of a raised exception discarded
IdleTx ==
    [pc |-> "idle", row |-> ReservationRow(NoId, "none", 0, 0, 0, 0), pref |-> NULL, zs |-> <<>>, i |-> 0,
     alloc |-> NoAllocation, rows |-> {}, assignments |-> {}, success |-> FALSE,
     undone |-> {}]

NoTx == [p \in Procs |-> IdleTx]

InitConfig(plans, cals) ==
    \E plan \in plans, cal \in cals :
        /\ zones = plan.zones
        /\ tables = plan.tables
        /\ table_combinations = plan.combos
        /\ special_closed_days = cal.closed
        /\ special_schedule_days = cal.special
        /\ restaurant_schedules = cal.weekly
        /\ time_slots = cal.slots

InitState(plans, calendars) ==
    /\ InitConfig(plans, calendars)
    /\ reservations = {}
    /\ reservation_table_assignments = {}
    /\ next_id = 1
    /\ result = NoResult
    /\ query = NoQuery
    /\ tx = NoTx
    /\ InitClient

Next == CreateReservation \/ CancelReservation

Spec == InitState({PlanTightest}, {CalendarShortDay, CalendarSpecial}) /\ [][Next]_vars

SpecPlans == InitState({PlanPriority, PlanCombination, PlanTightest, PlanInactiveMember, PlanCrossZone, PlanInactiveZone, PlanTie}, {CalendarOpen, CalendarSpecial}) /\ [][Next]_vars

SpecZones == InitState({PlanPriority, PlanInactiveZone, PlanTie}, {CalendarClosedDay}) /\ [][Next]_vars

SpecStrategy == InitState({PlanStrategy, PlanTie}, {CalendarClosedDay}) /\ [][Next]_vars

SpecPolicy == InitState({PlanTightest}, {CalendarSpecial, CalendarOverride, CalendarClosedRange}) /\ [][Next]_vars

SpecHours == InitState({PlanSingle}, {CalendarSpecial, CalendarOverride}) /\ [][(CreateReservation \/ CancelReservation \/ GetAvailableTimeSlots)]_vars

SpecAgree == InitState({PlanInactiveZone}, {CalendarClosedDay}) /\ [][(CreateReservation \/ CancelReservation \/ GetAvailableTimeSlots)]_vars

\* the customer, date, time and status of a stored reservation
BookedCustomers == <<"c1", "c2", "c3">>

BookedTimes == <<[date |-> 0, time |-> 0], [date |-> 0, time |-> 1], [date |-> 1, time |-> 0]>>

\* the reservation row of a code
\* up to MaxReservations stored reservations of three customers, each at a
\* table of its own
InitBooked(plans, calendars) ==
    /\ InitConfig(plans, calendars)
    /\ \E k \in 0..MaxReservations :
          \E f \in [1..k -> (0..(Len(BookedCustomers) * Len(BookedTimes) * Len(<<"confirmed", "arrived", "cancelled">>) - 1))] :
             /\ \A i \in 1..k : \A j \in 1..k : i < j => f[i] <= f[j]
             /\ reservations =
                    {LET c == BookedCustomers[(f[i] % Len(BookedCustomers)) + 1]
                         w == BookedTimes[((f[i] \div Len(BookedCustomers))
                                              % Len(BookedTimes)) + 1]
                         st == <<"confirmed", "arrived", "cancelled">>[
                                  (f[i] \div (Len(BookedCustomers) * Len(BookedTimes))) + 1]
                     IN  [ReservationRow(i, c, w.date, w.time, 2, 1) EXCEPT !.status = st]
                       : i \in 1..k}
             /\ reservation_table_assignments =
                    {[reservation_id |-> i, table_id |-> <<"T1", "T2", "T3", "T4", "T5">>[i]] : i \in 1..k}
             /\ next_id = k + 1
    /\ result = NoResult
    /\ query = NoQuery
    /\ tx = NoTx
    /\ InitClient

\* calls of public_cancel_reservation on stored reservations
SpecCancel == InitBooked({PlanStrategy}, {CalendarOpen}) /\ [][CancelReservation]_vars

\* the user and the browser on the booking wizard
SpecWizard == InitState({PlanSingle}, {CalendarOpen}) /\ [][WizardStep]_vars

\* a mounted TimeStep: React runs a scheduled effect, and a request settles,
\* by response, by network error or by the timeout of the client
SpecTimeStepFair ==
    /\ InitState({PlanSingle}, {CalendarOpen})
    /\ [][PropsChange \/ RunEffect \/ CheckSettles]_vars
    /\ WF_vars(RunEffect) /\ WF_vars(CheckSettles)

\* the login form of the administrator
SpecAdmin == InitState({PlanSingle}, {CalendarOpen}) /\ [][(setEmail \/ setPassword \/ handleSubmit \/ LoginSettles)]_vars

SpecReport == InitState({PlanSingle}, {CalendarShortDay}) /\ [][(CreateReservation \/ CancelReservation \/ GetAvailableTables)]_vars

SpecSnapshot == InitState({PlanSingle}, {CalendarShortDay}) /\ [][(CreateReservation \/ CancelReservation \/ GetAvailableTimeSlots)]_vars

----------------------------------------------------------------------------
(* The read-only specification: the slot calculator and the table-status   *)
(* reporter are called on stored reservations of every status             *)

\* the status of a stored reservation; check-in and completion are set by
\* flows outside these functions
RowStatuses == <<"confirmed", "arrived", "cancelled", "completed">>

\* the window and the tables of a stored reservation: the first tick of date
\* 0 on one table or on the members of a combination, or the first tick of
\* date 1 on one table
RowPlacements ==
    <<[date |-> 0, time |-> 0, duration_minutes |-> 1, table_ids |-> {"T1"}],
      [date |-> 0, time |-> 0, duration_minutes |-> 1, table_ids |-> {"T2", "T3"}],
      [date |-> 1, time |-> 0, duration_minutes |-> 1, table_ids |-> {"T1"}]>>

\* the reservation row with the status and window of a code
StoredRow(id, code) ==
    LET w == RowPlacements[(code \div Len(RowStatuses)) + 1]
    IN  [ReservationRow(id, "c1", w.date, w.time, 2, w.duration_minutes)
            EXCEPT !.status = RowStatuses[(code % Len(RowStatuses)) + 1]]

\* the floor plans of the read-only specification
ReadPlans == {PlanPriority, PlanInactiveZone, PlanTie, PlanSameName}

\* up to MaxReservations stored reservations with their assignment rows
\* the rows found in the database: up to MaxReservations reservations of any
\* status with their assignment rows
InitStored(plans, calendars) ==
    /\ InitConfig(plans, calendars)
    /\ \E k \in 0..MaxReservations :
          \E f \in [1..k -> (0..(Len(RowStatuses) * Len(RowPlacements) - 1))] :
             /\ \A i \in 1..k : \A j \in 1..k : i < j => f[i] <= f[j]
             /\ reservations = {StoredRow(i, f[i]) : i \in 1..k}
             /\ reservation_table_assignments =
                    UNION {{[reservation_id |-> i, table_id |-> t] :
                              t \in RowPlacements[(f[i] \div Len(RowStatuses)) + 1].table_ids} : i \in 1..k}
             /\ next_id = k + 1
    /\ result = NoResult
    /\ query = NoQuery
    /\ tx = NoTx
    /\ InitClient

SpecOrder == InitStored(ReadPlans, {CalendarOpen}) /\ [][GetAvailableTimeSlots]_vars

SpecRead == InitStored(ReadPlans, {CalendarOverride, CalendarSparseGrid}) /\ [][(GetAvailableTimeSlots \/ GetAvailableTables)]_vars

----------------------------------------------------------------------------
(* The concurrent specification: two calls of                              *)
(* create_reservation_with_assignment run as two READ COMMITTED            *)
(* transactions.  Each statement reads the committed rows and the rows its *)
(* own transaction wrote; the rows a transaction wrote (rows, assignments) *)
(* become visible to others when it commits.                               *)

\* the reservation rows a statement of transaction p reads
VisibleReservations(p) == reservations \cup tx[p].rows

\* the assignment rows a statement of transaction p reads
VisibleAssignments(p) == reservation_table_assignments \cup tx[p].assignments

\* a policy rejection: the call returns before it writes
TxReject(p) ==
    /\ tx[p].pc = "idle"
    /\ \E p_date \in {0}, p_time \in Times, diners_ok \in BOOLEAN :
          PolicyError(p_date, p_time, SpecialScheduleRows(p_date), diners_ok) # NoError
    /\ tx' = [tx EXCEPT ![p].pc = "done"]
    /\ UNCHANGED <<client, config, query, reservations, reservation_table_assignments, next_id, result>>

\* the checks pass, the reservation row is inserted and the FOR v_zone query runs
TxBegin(p) ==
    /\ tx[p].pc = "idle"
    /\ \E p_customer_id \in {"c1"}, p_date \in {0}, p_time \in Times,
          p_guests \in PartySizes, p_duration_minutes \in Durations,
          p_pref \in ZoneIds \cup {NULL} :
          LET row == ReservationRow(next_id, p_customer_id, p_date, p_time,
                                    p_guests, p_duration_minutes)
          IN  /\ PolicyError(p_date, p_time, SpecialScheduleRows(p_date), TRUE) = NoError
              /\ \E zs \in ZoneOrders(p_pref) :
                    tx' = [tx EXCEPT ![p] =
                              [IdleTx EXCEPT !.pc = IF Len(zs) = 0 THEN "empty" ELSE "single",
                                             !.row = row, !.pref = p_pref, !.zs = zs,
                                             !.i = 1, !.rows = {row}]]
    /\ next_id' = next_id + 1
    /\ UNCHANGED <<client, config, query, reservations, reservation_table_assignments, result>>

\* strategy 1 in zone zs[i], run only while no other request is in flight
TxSelectSingle_Waiting(p) ==
    /\ \A q \in Procs \ {p} : tx[q].pc \in {"idle", "done"}
    /\ LET t == tx[p]
               singles == TightestTables(
                   SingleCandidates(VisibleReservations(p), VisibleAssignments(p), t.zs[t.i].id,
                                    t.row.date, t.row.start_at, t.row.end_at, t.row.guests))
           IN  /\ t.pc = "single"
               /\ \/ /\ singles = {}
                     /\ tx' = [tx EXCEPT ![p].pc = "combination"]
                  \/ \E tbl \in singles :
                        tx' = [tx EXCEPT ![p].pc = "assign",
                                         ![p].alloc = Allocation("single", t.zs[t.i].id, NULL, {tbl.id})]
               /\ UNCHANGED <<client, config, query, reservations, reservation_table_assignments, next_id, result>>

\* strategy 1 in zone zs[i]: SELECT t.id INTO v_table_id ... LIMIT 1
TxSelectSingle(p) ==
    LET t == tx[p]
        singles == TightestTables(
            SingleCandidates(VisibleReservations(p), VisibleAssignments(p), t.zs[t.i].id,
                             t.row.date, t.row.start_at, t.row.end_at, t.row.guests))
    IN  /\ t.pc = "single"
        /\ \/ /\ singles = {}
              /\ tx' = [tx EXCEPT ![p].pc = "combination"]
           \/ \E tbl \in singles :
                 tx' = [tx EXCEPT ![p].pc = "assign",
                                  ![p].alloc = Allocation("single", t.zs[t.i].id, NULL, {tbl.id})]
        /\ UNCHANGED <<client, config, query, reservations, reservation_table_assignments, next_id, result>>

\* strategy 2 in zone zs[i]: FOR v_combination IN SELECT ... LIMIT 1
TxSelectCombination(p) ==
    LET t == tx[p]
        combos == TightestCombinations(
            CombinationCandidates(VisibleReservations(p), VisibleAssignments(p), t.zs[t.i].id,
                                  t.row.date, t.row.start_at, t.row.end_at, t.row.guests))
    IN  /\ t.pc = "combination"
        /\ \/ /\ combos = {}
              /\ tx' = [tx EXCEPT ![p].i = t.i + 1,
                                  ![p].pc = IF t.i + 1 > Len(t.zs) THEN "empty" ELSE "single"]
           \/ \E tc \in combos :
                 tx' = [tx EXCEPT ![p].pc = "assign",
                                  ![p].alloc = Allocation("combination", t.zs[t.i].id,
                                                          tc.id, tc.table_ids)]
        /\ UNCHANGED <<client, config, query, reservations, reservation_table_assignments, next_id, result>>

\* one INSERT INTO reservation_table_assignments; after the last one the
\* allocator returns and the call returns success
TxInsertAssignment(p) ==
    LET t == tx[p]
        written == {a.table_id : a \in t.assignments}
    IN  /\ t.pc = "assign"
        /\ \E table_id \in t.alloc.table_ids \ written :
              tx' = [tx EXCEPT
                        ![p].assignments = InsertAssignments(t.assignments, t.row.id, {table_id}),
                        ![p].pc = IF written \cup {table_id} = t.alloc.table_ids
                                    THEN "commit" ELSE "assign",
                        ![p].success = (written \cup {table_id} = t.alloc.table_ids)]
        /\ UNCHANGED <<client, config, query, reservations, reservation_table_assignments, next_id, result>>

\* an INSERT of an assignment row raises and the rows inserted before it stay
TxRaise_Partial(p) ==
    LET t == tx[p]
    IN  /\ t.pc = "assign"
        /\ tx' = [tx EXCEPT ![p].rows = DeleteReservation({}, t.row.id),
                            ![p].undone = {},
                            ![p].pc = "commit"]
        /\ UNCHANGED <<client, config, query, reservations, reservation_table_assignments, next_id, result>>

\* an INSERT of an assignment row raises: both blocks are rolled back to their
\* entry state, each handler runs its DELETE, the call returns failure
TxRaise(p) ==
    LET t == tx[p]
    IN  /\ t.pc = "assign"
        /\ tx' = [tx EXCEPT ![p].assignments = DeleteAssignments({}, t.row.id),
                            ![p].rows = DeleteReservation({}, t.row.id),
                            ![p].undone = t.assignments,
                            ![p].pc = "commit"]
        /\ UNCHANGED <<client, config, query, reservations, reservation_table_assignments, next_id, result>>

\* the allocator returned no table: the reservation row is deleted again
TxReturnEmpty(p) ==
    LET t == tx[p]
    IN  /\ t.pc = "empty"
        /\ tx' = [tx EXCEPT ![p].rows = DeleteReservation(t.rows, t.row.id),
                            ![p].pc = "commit"]
        /\ UNCHANGED <<client, config, query, reservations, reservation_table_assignments, next_id, result>>

\* the transaction commits: what it wrote becomes visible
TxCommit(p) ==
    /\ tx[p].pc = "commit"
    /\ reservations' = reservations \cup tx[p].rows
    /\ reservation_table_assignments' = reservation_table_assignments \cup tx[p].assignments
    /\ tx' = [tx EXCEPT ![p].pc = "done", ![p].rows = {}, ![p].assignments = {}]
    /\ UNCHANGED <<client, config, query, next_id, result>>

NextTx ==
    \E p \in Procs :
        \/ TxReject(p)
        \/ TxBegin(p)
        \/ TxSelectSingle(p)
        \/ TxSelectCombination(p)
        \/ TxInsertAssignment(p)
        \/ TxRaise(p)
        \/ TxReturnEmpty(p)
        \/ TxCommit(p)

SpecTx == InitState({PlanCombination}, {CalendarOpen, CalendarSpecial}) /\ [][NextTx]_vars

\* the steps of request p once it has been received
TxStep(p) ==
    \/ TxSelectSingle(p)
    \/ TxSelectCombination(p)
    \/ TxInsertAssignment(p)
    \/ TxRaise(p)
    \/ TxReturnEmpty(p)
    \/ TxCommit(p)

\* the server keeps executing the statements of every request it has received
SpecTxFair == InitState({PlanCombination}, {CalendarOpen, CalendarSpecial}) /\ [][NextTx]_vars /\ \A p \in Procs : WF_vars(TxStep(p))

SpecTxRead == InitState({PlanSingle}, {CalendarOverride}) /\ [][(NextTx \/ GetAvailableTimeSlots \/ GetAvailableTables)]_vars

----------------------------------------------------------------------------
(* Properties *)

\* the tables assigned to reservation id in the assignment rows rta
AssignedTables(rta, id) == {a.table_id : a \in {b \in rta : b.reservation_id = id}}

\* two reservations hold a common table over intersecting [start, end) intervals
DoubleBooked(r1, r2) ==
    /\ r1.id # r2.id
    /\ r1.status \in ActiveStatuses
    /\ r2.status \in ActiveStatuses
    /\ AssignedTables(reservation_table_assignments, r1.id)
         \cap AssignedTables(reservation_table_assignments, r2.id) # {}
    /\ r1.start_at < r2.end_at
    /\ r2.start_at < r1.end_at

\* C1: after any sequence of atomic createReservation and cancellation calls
\* no two confirmed or arrived reservations that share a table have
\* overlapping [start, end) intervals, whatever their calendar dates
C1_NoDoubleBooking ==
    \A r1, r2 \in reservations : ~ DoubleBooked(r1, r2)

\* C2: of two concurrent createReservation requests at most one ends up
\* holding a table for overlapping windows: no interleaving commits both
\* reservations on a common table with intersecting intervals
C2_AtMostOneHolder ==
    \A p, q \in Procs :
        (p # q /\ tx[p].pc = "done" /\ tx[q].pc = "done")
            => \A r1, r2 \in reservations :
                  (r1.id = tx[p].row.id /\ r2.id = tx[q].row.id) => ~ DoubleBooked(r1, r2)

\* C3: createReservation is all-or-nothing: a call that returns a failure
\* leaves no reservation row and no assignment row of that attempt behind
C3_AllOrNothing ==
    [][(result'.op = "create" /\ ~ result'.success)
          => /\ reservations' \subseteq reservations
             /\ reservation_table_assignments' \subseteq reservation_table_assignments
             /\ \A r \in reservations' : r.id # result'.attempt_id
             /\ \A a \in reservation_table_assignments' :
                    a.reservation_id # result'.attempt_id]_vars

\* a call failed after its row had been inserted, next to an earlier reservation
C3_Witness ==
    /\ result.op = "create"
    /\ ~ result.success
    /\ result.attempt_id # NoId
    /\ reservations # {}

\* C4: every reservation a reader can see, also while other creations are in
\* flight, has a complete assignment set: exactly one table, or every member
\* table of one combination
C4_CompleteAssignment ==
    \A r \in reservations :
        LET assigned == AssignedTables(reservation_table_assignments, r.id)
        IN  \/ \E t \in tables : assigned = {t.id}
            \/ \E tc \in table_combinations : assigned = tc.table_ids

\* a committed reservation holds both tables of a combination while another
\* creation has written only a part of its rows
C4_Witness ==
    /\ \E r \in reservations :
          Cardinality(AssignedTables(reservation_table_assignments, r.id)) = 2
    /\ \E p \in Procs :
          /\ tx[p].pc = "assign"
          /\ tx[p].rows # {}
          /\ Cardinality(tx[p].assignments) = 1

\* the call of this step passed its checks, inserted its row and the
\* allocator returned a list of tables, empty or not
AllocatorReturned ==
    /\ result'.op = "create"
    /\ result'.attempt_id = next_id
    /\ result'.error \in {NoError, NoTablesError}

\* zone zone_id has a free table or a free combination that fits the request
CanSeat(zone_id, p_date, p_time, p_duration_minutes, p_guests) ==
    LET v_start_at == StartAt(p_date, p_time)
        v_end_at == EndAt(v_start_at, p_duration_minutes)
    IN  \/ SingleCandidates(reservations, reservation_table_assignments, zone_id,
                            p_date, v_start_at, v_end_at, p_guests) # {}
        \/ CombinationCandidates(reservations, reservation_table_assignments, zone_id,
                                 p_date, v_start_at, v_end_at, p_guests) # {}

\* C5: a successful allocation assigns one table of capacity >= P or one
\* combination of total capacity >= P, and no free fitting candidate of the
\* same strategy in the chosen zone has a smaller capacity
C5_TightestFit ==
    [][(AllocatorReturned /\ result'.success)
          => LET p_guests == result'.guests
                 v_start_at == StartAt(result'.date, result'.time)
                 v_end_at == EndAt(v_start_at, result'.duration_minutes)
                 assigned == AssignedTables(reservation_table_assignments', next_id)
                 Free(id) == is_table_available(reservations, reservation_table_assignments,
                                                id, result'.date, v_start_at, v_end_at, NoId)
             IN  \/ /\ result'.kind = "single"
                    /\ \E t \in tables :
                          /\ assigned = {t.id}
                          /\ t.capacity >= p_guests
                          /\ \A u \in tables :
                                (/\ u.is_active
                                 /\ u.zone_id = result'.zone_id
                                 /\ u.capacity >= p_guests
                                 /\ Free(u.id)) => t.capacity <= u.capacity
                 \/ /\ result'.kind = "combination"
                    /\ \E tc \in table_combinations :
                          /\ tc.id = result'.combination_id
                          /\ assigned = tc.table_ids
                          /\ tc.total_capacity >= p_guests
                          /\ \A u \in table_combinations :
                                (/\ u.is_active
                                 /\ u.zone_id = result'.zone_id
                                 /\ u.total_capacity >= p_guests
                                 /\ \A m \in u.table_ids : Free(m))
                                    => tc.total_capacity <= u.total_capacity]_vars

\* one table was assigned while a larger table of the same zone had never
\* been booked
C5_Witness ==
    /\ result.op = "create"
    /\ result.success
    /\ result.kind = "single"
    /\ reservations # {}
    /\ \E t, u \in tables :
          /\ result.assigned_tables = {t.id}
          /\ u.is_active
          /\ u.zone_id = t.zone_id
          /\ u.capacity > t.capacity
          /\ \A a \in reservation_table_assignments : a.table_id # u.id

\* C6: when the preferred zone is active and has a free fitting table or
\* combination, the allocation succeeds in that zone, with a table of that
\* zone or the member tables of a combination of that zone, whatever the
\* priority_order of the other zones
C6_PreferredZoneWins ==
    [][(/\ AllocatorReturned
        /\ result'.preferred_zone_id # NULL
        /\ \E z \in zones : z.id = result'.preferred_zone_id /\ z.is_active
        /\ CanSeat(result'.preferred_zone_id, result'.date, result'.time,
                   result'.duration_minutes, result'.guests))
          => LET assigned == AssignedTables(reservation_table_assignments', next_id)
             IN  /\ result'.success
                 /\ result'.zone_id = result'.preferred_zone_id
                 /\ \/ \E t \in tables :
                          assigned = {t.id} /\ t.zone_id = result'.preferred_zone_id
                    \/ \E tc \in table_combinations :
                          /\ assigned = tc.table_ids
                          /\ tc.zone_id = result'.preferred_zone_id]_vars

\* the preferred zone was used while a zone that ranks before it had a
\* fitting table that had never been booked
C6_Witness ==
    /\ result.op = "create"
    /\ result.success
    /\ result.preferred_zone_id # NULL
    /\ result.zone_id = result.preferred_zone_id
    /\ \E z, y \in zones :
          /\ z.id = result.preferred_zone_id
          /\ y.is_active
          /\ y.priority_order < z.priority_order
          /\ \E u \in tables :
                /\ u.is_active
                /\ u.zone_id = y.id
                /\ u.capacity >= result.guests
                /\ \A a \in reservation_table_assignments : a.table_id # u.id

\* C7: with a preferred zone the allocator returns the empty list only if no
\* active zone at all can seat the party
C7_FallbackToOtherZones ==
    (/\ result.op = "create"
     /\ result.error = NoTablesError
     /\ result.preferred_zone_id # NULL)
        => ~ \E z \in zones :
                 /\ z.is_active
                 /\ CanSeat(z.id, result.date, result.time, result.duration_minutes,
                            result.guests)

\* C8: without a preferred zone the allocation succeeds iff some active zone
\* can seat the party, and it assigns from an active zone that can seat it
\* such that no active zone of smaller priority_order can
C8_PriorityOrder ==
    [][(AllocatorReturned /\ result'.preferred_zone_id = NULL)
          => LET assigned == AssignedTables(reservation_table_assignments', next_id)
                 Seats(z) == CanSeat(z.id, result'.date, result'.time,
                                     result'.duration_minutes, result'.guests)
             IN  /\ result'.success <=> \E z \in zones : z.is_active /\ Seats(z)
                 /\ result'.success
                      => \E z \in zones :
                            /\ z.id = result'.zone_id
                            /\ z.is_active
                            /\ Seats(z)
                            /\ \A y \in zones :
                                  (y.is_active /\ y.priority_order < z.priority_order)
                                      => ~ Seats(y)
                            /\ \/ \E t \in tables :
                                     assigned = {t.id} /\ t.zone_id = z.id
                               \/ \E tc \in table_combinations :
                                     assigned = tc.table_ids /\ tc.zone_id = z.id]_vars

\* the table of the first-ranked zone is booked for an overlapping window and
\* the call without preference got a table of the zone that ranks next
C8_Witness ==
    /\ result.op = "create"
    /\ result.success
    /\ result.preferred_zone_id = NULL
    /\ result.kind = "single"
    /\ \E r, n \in reservations :
          /\ n.id = result.reservation_id
          /\ r.id # n.id
          /\ r.status \in ActiveStatuses
          /\ r.date = n.date
          /\ r.start_at < n.end_at
          /\ n.start_at < r.end_at
          /\ \E y, z \in zones :
                /\ z.id = result.zone_id
                /\ y.priority_order < z.priority_order
                /\ \E t \in tables :
                      /\ t.zone_id = y.id
                      /\ t.capacity >= n.guests
                      /\ AssignedTables(reservation_table_assignments, r.id) = {t.id}

\* C9: a combination is selected only if every member table is free for the
\* requested window, and then the assignment rows of the reservation and the
\* returned list are exactly the member tables of the combination
C9_CombinationAllFree ==
    [][(AllocatorReturned /\ result'.success /\ result'.kind = "combination")
          => LET v_start_at == StartAt(result'.date, result'.time)
                 v_end_at == EndAt(v_start_at, result'.duration_minutes)
             IN  \E tc \in table_combinations :
                    /\ tc.id = result'.combination_id
                    /\ \A m \in tc.table_ids :
                          is_table_available(reservations, reservation_table_assignments,
                                             m, result'.date, v_start_at, v_end_at, NoId)
                    /\ AssignedTables(reservation_table_assignments', next_id) = tc.table_ids
                    /\ result'.assigned_tables = tc.table_ids]_vars

\* a combination of two tables was assigned while another fitting combination
\* had a member table booked for an overlapping window
C9_Witness ==
    /\ result.op = "create"
    /\ result.success
    /\ result.kind = "combination"
    /\ Cardinality(AssignedTables(reservation_table_assignments, result.reservation_id)) = 2
    /\ \E r, n \in reservations :
          /\ n.id = result.reservation_id
          /\ r.id # n.id
          /\ r.status \in ActiveStatuses
          /\ r.date = n.date
          /\ r.start_at < n.end_at
          /\ n.start_at < r.end_at
          /\ \E tc \in table_combinations :
                /\ tc.id # result.combination_id
                /\ tc.total_capacity >= n.guests
                /\ AssignedTables(reservation_table_assignments, r.id) \cap tc.table_ids # {}

\* C10: every assigned table is active, the member tables of an assigned
\* combination included
C10_AssignedTablesActive ==
    \A a \in reservation_table_assignments :
        \E t \in tables : t.id = a.table_id /\ t.is_active

\* C11: the tables assigned to a reservation all belong to one zone and are
\* one single table or the member tables of one combination, on every
\* configuration of tables and combinations
C11_OneZoneOneStrategy ==
    \A r \in reservations :
        LET assigned == AssignedTables(reservation_table_assignments, r.id)
        IN  /\ \A t1, t2 \in tables :
                  (t1.id \in assigned /\ t2.id \in assigned) => t1.zone_id = t2.zone_id
            /\ \/ \E t \in tables : assigned = {t.id}
               \/ \E tc \in table_combinations : assigned = tc.table_ids

\* C12: a table is occupied for a window iff a confirmed or arrived
\* reservation assigned to it on that date has start < window end and
\* end > window start, the excluded reservation apart; the overlap checker,
\* the slot calculator and the table-status reporter all answer by this rule
C12_OccupancyRule ==
    /\ \A t \in tables, p_date \in Dates, p_time \in Times,
          p_duration_minutes \in Durations,
          p_exclude \in {NoId} \cup {r.id : r \in reservations} :
          LET v_start_at == StartAt(p_date, p_time)
              v_end_at == EndAt(v_start_at, p_duration_minutes)
              occupied ==
                  \E r \in reservations :
                      /\ [reservation_id |-> r.id, table_id |-> t.id]
                             \in reservation_table_assignments
                      /\ r.date = p_date
                      /\ r.status \in {"confirmed", "arrived"}
                      /\ r.start_at < v_end_at
                      /\ r.end_at > v_start_at
                      /\ (p_exclude = NoId \/ r.id # p_exclude)
          IN  /\ is_table_available(reservations, reservation_table_assignments,
                                    t.id, p_date, v_start_at, v_end_at, p_exclude)
                     = ~ occupied
              /\ (t.id \in ReportOccupiedTables(p_date, v_start_at, v_end_at, p_exclude))
                     = occupied
              /\ p_exclude = NoId
                   => (t.id \in SlotOccupiedTables(p_date, p_time, p_duration_minutes))
                          = occupied
    /\ query.op = "tables"
         => \A i \in 1..Len(query.rows) :
               LET v_start_at == StartAt(query.date, query.time)
                   v_end_at == EndAt(v_start_at, query.duration_minutes)
               IN  query.rows[i].is_available
                     = ~ \E r \in reservations :
                           /\ [reservation_id |-> r.id,
                               table_id |-> query.rows[i].table_id]
                                  \in reservation_table_assignments
                           /\ r.date = query.date
                           /\ r.status \in {"confirmed", "arrived"}
                           /\ r.start_at < v_end_at
                           /\ r.end_at > v_start_at
                           /\ (query.exclude = NoId \/ r.id # query.exclude)

\* the reporter was asked about a window that touches the end of a confirmed
\* reservation, overlaps no other, and reports the table of that reservation
\* free; a reservation of another status is stored as well
C12_Witness ==
    /\ query.op = "tables"
    /\ \E r \in reservations :
          /\ r.status = "confirmed"
          /\ r.date = query.date
          /\ r.end_at = StartAt(query.date, query.time)
          /\ \E i \in 1..Len(query.rows) :
                /\ query.rows[i].is_available
                /\ [reservation_id |-> r.id, table_id |-> query.rows[i].table_id]
                       \in reservation_table_assignments
    /\ \E r \in reservations : r.status \in {"cancelled", "completed"}

\* the date is a single closure date or lies in a closure range
DateClosed(p_date) ==
    \E scd \in special_closed_days :
        IF scd.is_range
          THEN scd.range_start <= p_date /\ p_date <= scd.range_end
          ELSE scd.date = p_date

\* the time lies in the special window of the date
InSpecialWindow(p_date, p_time) ==
    \E s \in special_schedule_days :
        /\ s.date = p_date
        /\ s.is_active
        /\ s.opening_time <= p_time
        /\ p_time <= s.closing_time

\* the time lies in an active weekly window of the weekday of the date
InWeeklyWindow(p_date, p_time) ==
    \E rs \in restaurant_schedules :
        /\ rs.day_of_week = p_date % 7
        /\ rs.is_active
        /\ rs.opening_time <= p_time
        /\ p_time <= rs.closing_time

\* the date has an active special schedule
HasSpecialSchedule(p_date) ==
    \E s \in special_schedule_days : s.date = p_date /\ s.is_active

\* C13: a policy rejection (closed date, single or in a range; time outside
\* the effective window; diners limit exceeded) returns a failure and leaves
\* the reservation rows and the assignment rows as they were
C13_PolicyRejection ==
    [][(/\ result'.op = "create"
        /\ \/ DateClosed(result'.date)
           \/ IF HasSpecialSchedule(result'.date)
                THEN ~ InSpecialWindow(result'.date, result'.time)
                ELSE ~ InWeeklyWindow(result'.date, result'.time)
           \/ ~ result'.diners_ok)
          => /\ ~ result'.success
             /\ result'.error \in {ClosedDayError, ClosedTimeError, DinersLimitError}
             /\ reservations' = reservations
             /\ reservation_table_assignments' = reservation_table_assignments]_vars

\* a call for a date inside a closure range was rejected
C13_Witness ==
    /\ result.op = "create"
    /\ result.error = ClosedDayError
    /\ \E scd \in special_closed_days :
          scd.is_range /\ scd.range_start <= result.date /\ result.date <= scd.range_end

\* C14: on a date with an active special schedule the time is validated
\* against the special window only, the weekly schedule being ignored; without
\* one the weekly schedule of the weekday is used; both bounds are inclusive
C14_SpecialOverridesWeekly ==
    [][(result'.op = "create" /\ ~ DateClosed(result'.date))
          => IF HasSpecialSchedule(result'.date)
               THEN (result'.error = ClosedTimeError)
                       <=> ~ InSpecialWindow(result'.date, result'.time)
               ELSE (result'.error = ClosedTimeError)
                       <=> ~ InWeeklyWindow(result'.date, result'.time)]_vars

\* a time on the bound of the special window and outside every weekly window
\* was accepted
C14_Witness ==
    /\ result.op = "create"
    /\ result.success
    /\ ~ InWeeklyWindow(result.date, result.time)
    /\ \E s \in special_schedule_days :
          /\ s.date = result.date
          /\ s.is_active
          /\ result.time \in {s.opening_time, s.closing_time}

\* C15: the checks run in the order closed day, opening window, diners limit,
\* allocation, and the first that fails gives the reason; the reasons of the
\* steps differ; after a failing policy step no row is inserted
C15_CheckOrder ==
    [][result'.op = "create"
          => LET closed == DateClosed(result'.date)
                 outside == IF HasSpecialSchedule(result'.date)
                              THEN ~ InSpecialWindow(result'.date, result'.time)
                              ELSE ~ InWeeklyWindow(result'.date, result'.time)
                 over_limit == ~ result'.diners_ok
             IN  /\ closed => result'.error = ClosedDayError
                 /\ (~ closed /\ outside) => result'.error = ClosedTimeError
                 /\ (~ closed /\ ~ outside /\ over_limit)
                       => result'.error = DinersLimitError
                 /\ (~ closed /\ ~ outside /\ ~ over_limit)
                       => result'.error \in {NoError, NoTablesError, UnexpectedError}
                 /\ Cardinality({ClosedDayError, ClosedTimeError, DinersLimitError,
                                 NoTablesError}) = 4
                 /\ (closed \/ outside \/ over_limit)
                       => /\ result'.attempt_id = NoId
                          /\ next_id' = next_id
                          /\ reservations' = reservations
                          /\ reservation_table_assignments'
                                = reservation_table_assignments]_vars

\* a request on a closed date, outside the opening window and over the diners
\* limit was rejected with the closed-day reason
C15_Witness ==
    /\ result.op = "create"
    /\ result.error = ClosedDayError
    /\ ~ InWeeklyWindow(result.date, result.time)
    /\ ~ HasSpecialSchedule(result.date)
    /\ ~ result.diners_ok

\* C16: after a successful creation the reservation row of the returned id
\* exists with status confirmed, and the returned table list is non-empty and
\* equals the assignment rows stored for that id
C16_SuccessMatchesRows ==
    (result.op = "create" /\ result.success)
       => /\ \E r \in reservations :
                r.id = result.reservation_id /\ r.status = "confirmed"
          /\ result.assigned_tables # {}
          /\ result.assigned_tables
                = {a.table_id : a \in
                     {x \in reservation_table_assignments :
                         x.reservation_id = result.reservation_id}}

\* a creation succeeded with the two tables of a combination
C16_Witness ==
    /\ result.op = "create"
    /\ result.success
    /\ Cardinality(result.assigned_tables) = 2
    /\ \A t \in result.assigned_tables :
          [reservation_id |-> result.reservation_id, table_id |-> t]
             \in reservation_table_assignments

\* no confirmed or arrived reservation of the date holds the table in the
\* window of the slot
FreeForSlot(table_id, p_date, slot_time, p_duration_minutes) ==
    ~ \E r \in reservations :
         /\ [reservation_id |-> r.id, table_id |-> table_id]
                \in reservation_table_assignments
         /\ r.date = p_date
         /\ r.status \in {"confirmed", "arrived"}
         /\ r.start_at < EndAt(StartAt(p_date, slot_time), p_duration_minutes)
         /\ r.end_at > StartAt(p_date, slot_time)

\* the zone has an active free table, or an active combination with no
\* occupied member, of capacity >= p_guests
ZoneAccommodates(zone_key, p_date, slot_time, p_guests, p_duration_minutes) ==
    \/ \E t \in tables :
          /\ t.is_active
          /\ JoinedZoneId(t.zone_id) = zone_key
          /\ t.capacity >= p_guests
          /\ FreeForSlot(t.id, p_date, slot_time, p_duration_minutes)
    \/ \E tc \in table_combinations :
          /\ tc.is_active
          /\ JoinedZoneId(tc.zone_id) = zone_key
          /\ tc.total_capacity >= p_guests
          /\ \A m \in tc.table_ids :
                FreeForSlot(m, p_date, slot_time, p_duration_minutes)

\* C18: the slot calculator returns a row (slot, zone) iff the slot is a grid
\* time inside an active weekly window of the weekday and the zone has a free
\* active table or combination of capacity >= P; every such pair appears
\* exactly once
C18_SlotPerZone ==
    query.op = "slots"
       => /\ \A slot_time \in Times, zone_key \in ({z.id : z \in zones} \cup {NULL}) :
                (\E i \in 1..Len(query.rows) :
                     /\ query.rows[i].slot_time = slot_time
                     /\ query.rows[i].zone_id = zone_key)
                  <=> /\ slot_time \in time_slots
                      /\ InWeeklyWindow(query.date, slot_time)
                      /\ ZoneAccommodates(zone_key, query.date, slot_time,
                                          query.guests, query.duration_minutes)
          /\ \A i, j \in 1..Len(query.rows) :
                (/\ query.rows[i].slot_time = query.rows[j].slot_time
                 /\ query.rows[i].zone_id = query.rows[j].zone_id) => i = j

\* the priority of the zone of a returned row, 999 for a row without zone
RowPriority(row) ==
    IF row.zone_id = NULL THEN 999
    ELSE (CHOOSE z \in zones : z.id = row.zone_id).priority_order

\* C20: the rows of the slot calculator are ordered by slot time ascending
\* and, within one slot time, by zone priority ascending, rows without zone
\* last with priority 999
C20_SlotOrder ==
    query.op = "slots"
       => \A i, j \in 1..Len(query.rows) :
             i < j => \/ query.rows[i].slot_time < query.rows[j].slot_time
                      \/ /\ query.rows[i].slot_time = query.rows[j].slot_time
                         /\ RowPriority(query.rows[i]) <= RowPriority(query.rows[j])

\* two slot times were returned, and one of them with a zone row followed by
\* the row of the tables without zone
C20_Witness ==
    /\ query.op = "slots"
    /\ \E i, j \in 1..Len(query.rows) :
          query.rows[i].slot_time < query.rows[j].slot_time
    /\ \E i, j \in 1..Len(query.rows) :
          /\ i < j
          /\ query.rows[i].slot_time = query.rows[j].slot_time
          /\ query.rows[i].zone_id # NULL
          /\ query.rows[j].zone_id = NULL

\* C17: a client read the slots from a snapshot, another reservation was
\* committed afterwards, and the client then creates a reservation for a slot
\* the snapshot listed: the creation re-validates, it succeeds or fails with
\* no tables available and never assigns a table that a reservation committed
\* since the snapshot holds for an overlapping window
C17_Revalidation ==
    [][(/\ AllocatorReturned
        /\ query.op = "slots"
        /\ query.date = result'.date
        /\ query.guests = result'.guests
        /\ query.duration_minutes = result'.duration_minutes
        /\ \E i \in 1..Len(query.rows) : query.rows[i].slot_time = result'.time)
          => \A r \in reservations :
                (/\ r.id >= query.as_of
                 /\ r.status \in {"confirmed", "arrived"}
                 /\ r.start_at < EndAt(StartAt(result'.date, result'.time),
                                       result'.duration_minutes)
                 /\ r.end_at > StartAt(result'.date, result'.time))
                   => \A t \in result'.assigned_tables :
                         [reservation_id |-> r.id, table_id |-> t]
                            \notin reservation_table_assignments]_vars

\* the time is the opening or the closing time of an active weekly schedule
\* of the weekday of the date
WeeklyBoundary(p_date, p_time) ==
    \E rs \in restaurant_schedules :
        /\ rs.day_of_week = p_date % 7
        /\ rs.is_active
        /\ p_time \in {rs.opening_time, rs.closing_time}

\* the rows of the slot calculator hold every grid slot on a weekly boundary
\* for which some zone has free capacity
BoundarySlotsListed ==
    query.op = "slots"
       => \A ts \in time_slots :
             (/\ WeeklyBoundary(query.date, ts)
              /\ \E zone_key \in ({z.id : z \in zones} \cup {NULL}) :
                    ZoneAccommodates(zone_key, query.date, ts, query.guests,
                                     query.duration_minutes))
                => \E i \in 1..Len(query.rows) : query.rows[i].slot_time = ts

\* C19: a grid slot equal to the opening or the closing time of an active
\* weekly schedule of the weekday is returned by the slot calculator when
\* capacity is free, and a creation at that time is not rejected as out of
\* hours
C19_InclusiveBoundary ==
    [][/\ query' # query => BoundarySlotsListed'
       /\ (result'.op = "create" /\ WeeklyBoundary(result'.date, result'.time))
             => result'.error # ClosedTimeError]_vars

\* C19, amended: a grid slot equal to the opening or the closing time of an
\* active weekly schedule of the weekday is returned by the slot calculator
\* when capacity is free, and on a date without an active special schedule a
\* creation at that time is not rejected as out of hours
C19_InclusiveBoundaryWeekly ==
    [][/\ query' # query => BoundarySlotsListed'
       /\ (/\ result'.op = "create"
           /\ WeeklyBoundary(result'.date, result'.time)
           /\ ~ HasSpecialSchedule(result'.date))
             => result'.error # ClosedTimeError]_vars

\* the slot at the closing time of the weekly schedule was returned, and a
\* creation at that time on the same date succeeded
C19_Witness ==
    /\ query.op = "slots"
    /\ result.op = "create"
    /\ result.success
    /\ result.date = query.date
    /\ ~ HasSpecialSchedule(result.date)
    /\ \E rs \in restaurant_schedules :
          /\ rs.day_of_week = result.date % 7
          /\ rs.is_active
          /\ rs.closing_time = result.time
    /\ \E i \in 1..Len(query.rows) : query.rows[i].slot_time = result.time

\* C21: with no write in between, a second call of the slot calculator with
\* the arguments of the first returns the same rows in the same order
C21_IdempotentRead ==
    [][(/\ query.op = "slots"
        /\ query'.op = "slots"
        /\ query'.date = query.date
        /\ query'.guests = query.guests
        /\ query'.duration_minutes = query.duration_minutes
        /\ reservations' = reservations
        /\ reservation_table_assignments' = reservation_table_assignments)
          => query'.rows = query.rows]_vars

\* C22: a call of a read-only function changes no reservation, assignment,
\* table, zone or combination row, committed or written by a transaction in
\* flight, whatever it is interleaved with
C22_ReadOnly ==
    [][query' # query
          => /\ reservations' = reservations
             /\ reservation_table_assignments' = reservation_table_assignments
             /\ tables' = tables
             /\ zones' = zones
             /\ table_combinations' = table_combinations
             /\ tx' = tx]_vars

\* a read-only function returned while a creation that had inserted its
\* reservation row was in flight and another had committed
C22_Witness ==
    /\ query.op \in {"slots", "tables"}
    /\ query.as_of = next_id
    /\ reservations # {}
    /\ \E p \in Procs : tx[p].pc \in {"single", "combination", "assign", "commit"}
                        /\ tx[p].rows # {}

\* the table row with the given id
TableById(table_id) == CHOOSE t \in tables : t.id = table_id

\* the table has a zone row
HasZone(t) == \E z \in zones : z.id = t.zone_id

\* the priority of the zone of a table that has one
ZonePriorityOf(t) == (CHOOSE z \in zones : z.id = t.zone_id).priority_order

\* table a may stand before table b in the floor map: by zone priority
\* ascending, tables without zone last, then by name
FloorMapOrder(a, b) ==
    LET byName == \E i, j \in 1..Len(TableNames) :
                      /\ TableNames[i] = a.name
                      /\ TableNames[j] = b.name
                      /\ i <= j
    IN  IF HasZone(a) /\ HasZone(b)
          THEN \/ ZonePriorityOf(a) < ZonePriorityOf(b)
               \/ (ZonePriorityOf(a) = ZonePriorityOf(b) /\ byName)
        ELSE IF HasZone(a) THEN TRUE
        ELSE IF HasZone(b) THEN FALSE
        ELSE byName

\* C23: the reporter returns every active table exactly once, whatever its
\* capacity, its zone and the state of that zone, and no inactive table; the
\* rows are ordered by zone priority ascending, tables without zone last,
\* then by table name
C23_FloorMap ==
    query.op = "tables"
       => /\ \A t \in tables :
                t.is_active <=> \E i \in 1..Len(query.rows) :
                                    query.rows[i].table_id = t.id
          /\ \A i \in 1..Len(query.rows) :
                \E t \in tables : /\ t.id = query.rows[i].table_id
                                  /\ t.name = query.rows[i].table_name
                                  /\ t.capacity = query.rows[i].capacity
          /\ \A i, j \in 1..Len(query.rows) :
                query.rows[i].table_id = query.rows[j].table_id => i = j
          /\ \A i, j \in 1..Len(query.rows) :
                i < j => FloorMapOrder(TableById(query.rows[i].table_id),
                                       TableById(query.rows[j].table_id))

\* the floor map holds a table of an inactive zone, two tables without zone
\* at its end in the order of their names, tables of different capacity, and
\* leaves an inactive table out
C23_Witness ==
    /\ query.op = "tables"
    /\ \E t \in tables : ~ t.is_active
    /\ \E i \in 1..Len(query.rows) :
          \E z \in zones : z.id = query.rows[i].zone_id /\ ~ z.is_active
    /\ Len(query.rows) >= 3
    /\ query.rows[Len(query.rows)].zone_id = NULL
    /\ query.rows[Len(query.rows) - 1].zone_id = NULL
    /\ query.rows[Len(query.rows) - 1].capacity < query.rows[Len(query.rows)].capacity
    /\ query.rows[1].zone_id # NULL

\* C24: the reporter flags a table free iff no confirmed or arrived
\* reservation other than the excluded one overlaps the window on that table
C24_ExcludedReservation ==
    [][(query' # query /\ query'.op = "tables")
          => \A i \in 1..Len(query'.rows) :
                query'.rows[i].is_available
                  <=> ~ \E r \in reservations :
                          /\ r.status \in {"confirmed", "arrived"}
                          /\ r.id # query'.exclude
                          /\ [reservation_id |-> r.id,
                              table_id |-> query'.rows[i].table_id]
                                 \in reservation_table_assignments
                          /\ r.start_at < EndAt(StartAt(query'.date, query'.time),
                                                query'.duration_minutes)
                          /\ r.end_at > StartAt(query'.date, query'.time)]_vars

\* C25: when an INSERT of an assignment row fails, also after some rows of a
\* combination were inserted, no assignment row of that reservation id
\* remains and the failure reaches the caller, which leaves no reservation row
C25_CleanupOnFailure ==
    [][\A p \in Procs :
          (tx[p].pc = "assign" /\ tx'[p].pc # "assign" /\ ~ tx'[p].success)
             => /\ \A a \in reservation_table_assignments' \cup tx'[p].assignments :
                      a.reservation_id # tx[p].row.id
                /\ \A r \in reservations' \cup tx'[p].rows : r.id # tx[p].row.id]_vars

\* the second INSERT for a combination failed: one row had been inserted and
\* was discarded, and the transaction ended without rows
C25_Witness ==
    \E p \in Procs :
        /\ tx[p].pc = "done"
        /\ ~ tx[p].success
        /\ tx[p].alloc.kind = "combination"
        /\ Cardinality(tx[p].undone) = 1
        /\ \A a \in reservation_table_assignments : a.reservation_id # tx[p].row.id

\* request p has been received and has not returned
TxRunning(p) == tx[p].pc \notin {"idle", "done"}

\* C26: every received request returns, with success and its reservation row
\* stored or with failure and no row, and at every point before that it has a
\* step it can take whatever the other request is doing
C26_Terminates ==
    \A p \in Procs :
        /\ [](TxRunning(p) => ENABLED TxStep(p))
        /\ TxRunning(p) ~> (/\ tx[p].pc = "done"
                            /\ tx[p].success <=> tx[p].row \in reservations)

\* a request received after another one has returned with a combination while
\* the earlier one is still at the first statement of its search
C26_Witness ==
    \E p, q \in Procs :
        /\ tx[p].pc = "done" /\ tx[p].success /\ tx[p].alloc.kind = "combination"
        /\ tx[q].pc = "single" /\ tx[q].i = 1
        /\ tx[q].row.id < tx[p].row.id

\* no confirmed or arrived reservation holds the table in the window
TableUnheld(table_id, v_start_at, v_end_at) ==
    \A r \in reservations :
        (/\ [reservation_id |-> r.id, table_id |-> table_id]
                \in reservation_table_assignments
         /\ r.start_at < v_end_at
         /\ r.end_at > v_start_at)
           => r.status \notin {"confirmed", "arrived"}

C28_WindowImmutable ==
    [][/\ \A r \in reservations' : r.end_at = r.start_at + r.duration_minutes
       /\ \A r \in reservations : \A u \in reservations' :
             u.id = r.id => /\ u.start_at = r.start_at
                            /\ u.end_at = r.end_at
                            /\ u.duration_minutes = r.duration_minutes]_vars

\* a reservation of two time units was cancelled, a later one is stored and
\* the last creation failed
C28_Witness ==
    /\ result.op = "create"
    /\ ~ result.success
    /\ \E r, n \in reservations :
          /\ r.status = "cancelled"
          /\ r.duration_minutes = 2
          /\ r.end_at = r.start_at + 2
          /\ n.status = "confirmed"
          /\ n.id > r.id

\* C29: a successful allocation is a combination only if its zone has no free
\* fitting single table, it is one free fitting table of its zone whenever the
\* zone has one, no visited zone of smaller priority_order can seat the party
\* under either strategy, and exactly one table or one combination is assigned
C29_SingleBeforeCombination ==
    [][(AllocatorReturned /\ result'.success)
          => LET assigned == AssignedTables(reservation_table_assignments', next_id)
                 v_start_at == StartAt(result'.date, result'.time)
                 v_end_at == EndAt(v_start_at, result'.duration_minutes)
                 singles == SingleCandidates(reservations, reservation_table_assignments,
                                             result'.zone_id, result'.date, v_start_at,
                                             v_end_at, result'.guests)
             IN  /\ result'.kind \in {"single", "combination"}
                 /\ result'.kind = "combination" <=> singles = {}
                 /\ result'.kind = "single"
                       => \E t \in singles : assigned = {t.id}
                 /\ result'.kind = "combination"
                       => \E tc \in table_combinations :
                             /\ tc.id = result'.combination_id
                             /\ tc.zone_id = result'.zone_id
                             /\ assigned = tc.table_ids
                 /\ \E z \in ZoneRows(result'.preferred_zone_id) :
                       /\ z.id = result'.zone_id
                       /\ \A y \in ZoneRows(result'.preferred_zone_id) :
                             y.priority_order < z.priority_order
                                => ~ CanSeat(y.id, result'.date, result'.time,
                                             result'.duration_minutes, result'.guests)]_vars

\* the first reservation got the combination of the first-ranked zone while a
\* table of the next zone was free and fitted; the second, for an overlapping
\* window, got that table while a free combination of its zone was smaller
C29_Witness ==
    \E r, n \in reservations :
        /\ r.id < n.id
        /\ n.id = result.reservation_id
        /\ result.op = "create" /\ result.kind = "single"
        /\ r.status \in ActiveStatuses /\ n.status \in ActiveStatuses
        /\ r.start_at < n.end_at /\ n.start_at < r.end_at
        /\ \E tc, sc \in table_combinations : \E t \in tables : \E y, z \in zones :
              /\ AssignedTables(reservation_table_assignments, r.id) = tc.table_ids
              /\ AssignedTables(reservation_table_assignments, n.id) = {t.id}
              /\ tc.zone_id = y.id /\ t.zone_id = z.id /\ sc.zone_id = z.id
              /\ y.priority_order < z.priority_order
              /\ t.capacity >= r.guests
              /\ sc.is_active
              /\ sc.total_capacity >= n.guests
              /\ sc.total_capacity < t.capacity
              /\ \A m \in sc.table_ids :
                    \A a \in reservation_table_assignments : a.table_id # m

\* C30: when the slot calculator has listed (time, zone) for a date, a party
\* size and a duration, nothing was written since, and createReservation is
\* called with that date, time, party size and duration and with the zone id
\* of the row as preferred zone and passes its checks, the creation succeeds
\* and every assigned table lies in that zone
C30_SlotsAgreeWithAllocation ==
    [][(/\ query.op = "slots"
        /\ query.as_of = next_id
        /\ query.rows \in AvailableTimeSlots(query.date, query.guests, query.duration_minutes)
        /\ AllocatorReturned
        /\ result'.date = query.date
        /\ result'.guests = query.guests
        /\ result'.duration_minutes = query.duration_minutes
        /\ \E i \in 1..Len(query.rows) :
              /\ query.rows[i].slot_time = result'.time
              /\ query.rows[i].zone_id = result'.preferred_zone_id)
          => /\ result'.success
             /\ \A t \in tables :
                   t.id \in AssignedTables(reservation_table_assignments', next_id)
                      => t.zone_id = result'.preferred_zone_id]_vars

\* C31: every slot time the slot calculator returned for a date passes the
\* closed-day check and the opening-window check of createReservation for that
\* date: none on a special closed day, only times inside the special window
\* on a date with an active special schedule, else inside a weekly window
C31_SlotsPassPolicy ==
    query.op = "slots"
       => \A i \in 1..Len(query.rows) :
             /\ ~ DateClosed(query.date)
             /\ IF HasSpecialSchedule(query.date)
                  THEN InSpecialWindow(query.date, query.rows[i].slot_time)
                  ELSE InWeeklyWindow(query.date, query.rows[i].slot_time)

\* C32: a call of createReservation keeps every reservation row and every
\* assignment row stored before it; a success adds one reservation row, of
\* the returned id, and the assignment rows of that id for the returned
\* tables; a failure, rollback paths included, leaves the rows as they were
C32_CreateFrame ==
    [][(/\ result'.op = "create"
        /\ \/ result' # result
           \/ reservations' # reservations
           \/ reservation_table_assignments' # reservation_table_assignments)
          => /\ reservations \subseteq reservations'
             /\ reservation_table_assignments \subseteq reservation_table_assignments'
             /\ result'.success
                  => /\ \E r \in reservations' :
                           /\ r.id = result'.reservation_id
                           /\ reservations' \ reservations = {r}
                     /\ reservation_table_assignments' \ reservation_table_assignments
                           = {[reservation_id |-> result'.reservation_id, table_id |-> t] :
                                 t \in result'.assigned_tables}
                     /\ result'.assigned_tables # {}
             /\ ~ result'.success
                  => /\ reservations' = reservations
                     /\ reservation_table_assignments' = reservation_table_assignments]_vars

\* an INSERT of an assignment row raised while an earlier reservation held the
\* two tables of a combination, whose rows are all still stored
C32_Witness ==
    /\ result.op = "create"
    /\ result.error = UnexpectedError
    /\ \E r \in reservations :
          /\ r.id # result.attempt_id
          /\ Cardinality(AssignedTables(reservation_table_assignments, r.id)) = 2

C34_ConfirmationAfterSuccess ==
    /\ (wizard.currentStep = "confirmation" /\ wizard.confirmedReservation # NoId)
          => /\ wizard.received \in ReservationIds
             /\ wizard.confirmedReservation = wizard.received
    /\ wizard.currentStep = "initial" => wizard.confirmedReservation = NoId

\* the confirmation view of a submission that succeeded
C34_Witness ==
    /\ wizard.currentStep = "confirmation"
    /\ wizard.confirmedReservation \in ReservationIds
    /\ wizard.submit = "none"

\* C35: when a submission fails at the customer request or at the
\* reservation request, the wizard is in step info afterwards, with the date,
\* guests, time and zone the submission started with and without a
\* confirmedReservation
C35_FailureKeepsSelection ==
    [][(wizard.submit \in {"customer", "reservation"} /\ wizard'.submit = "none")
          => /\ wizard'.currentStep = "info"
             /\ <<wizard'.selectedDate, wizard'.selectedGuests, wizard'.selectedTime,
                  wizard'.selectedZoneId>> = wizard.submitted
             /\ wizard'.confirmedReservation = NoId]_vars

\* a submission with a preferred zone failed and the wizard shows the info
\* step with the selection it was made with
C35_Witness ==
    /\ wizard.currentStep = "info"
    /\ wizard.submit = "none"
    /\ wizard.received = NoId
    /\ wizard.selectedZoneId # NULL
    /\ wizard.submitted = <<wizard.selectedDate, wizard.selectedGuests,
                            wizard.selectedTime, wizard.selectedZoneId>>
    /\ wizard.selectedDate # NoDate

\* C36: in step time a date is selected and the guest count is positive, in
\* step guests a date is selected, whatever the order of the user's actions and
\* of the callback scheduled by handleGuestsSelect
C36_StepHasSelection ==
    /\ wizard.currentStep = "time"
          => wizard.selectedDate # NoDate /\ wizard.selectedGuests > 0
    /\ wizard.currentStep = "guests" => wizard.selectedDate # NoDate

\* C37: a mounted TimeStep has at most one availability check in flight: a
\* check starts only while isCheckingRef is false, the flag is set while the
\* check is in flight and cleared when it settles
C37_OneCheckInFlight ==
    [][/\ timestep'.inflight > timestep.inflight => ~ timestep.isCheckingRef
       /\ timestep'.inflight <= 1
       /\ timestep'.isCheckingRef <=> timestep'.inflight = 1
       /\ timestep'.inflight < timestep.inflight => ~ timestep'.isCheckingRef]_vars

\* the props changed while a check was in flight and the effect of the new
\* props has run without starting a second check
C37_Witness ==
    /\ timestep.inflight = 1
    /\ timestep.isCheckingRef
    /\ ~ timestep.effect
    /\ timestep.lastCheckRef # CheckKey(timestep.date, timestep.guests)

\* C38: whenever a mounted TimeStep has a (date, guests) pair, eventually the
\* availability check of that pair has been run or the pair has changed again,
\* also when the pair arrived while an earlier check was in flight
C38_ChangeEventuallyChecked ==
    \A date \in Dates, guests \in PartySizes :
        (CheckKey(timestep.date, timestep.guests) = CheckKey(date, guests))
           ~> \/ timestep.lastCheckRef = CheckKey(date, guests)
              \/ CheckKey(timestep.date, timestep.guests) # CheckKey(date, guests)

\* C39: handleSubmit calls loginLocalAdmin only when the token endpoint
\* accepted the submitted email and password: a login request that was
\* rejected, failed or timed out does not start an admin session
C39_SessionOnlyWhenAccepted ==
    [][(~ admin.session /\ admin'.session) => admin'.outcome = "accepted"]_vars

====
